---- MODULE Spec2Model ----
(***************************************************************************)
(* A model of the asynchronous task queue (api-gateway/async_queue.py), of  *)
(* the TTL/LRU cache (api-gateway/cache_manager.py), and of their users in  *)
(* the provider client (api-gateway/orgo_client.py) and the orchestrator    *)
(* (api-gateway/orchestrator.py) of the Mouse platform.                     *)
(*                                                                          *)
(* Scheduling is asyncio's: one coroutine runs at a time and keeps the      *)
(* event loop until it reaches an await that really suspends (an empty      *)
(* queue, a sleep, a handler or factory doing I/O, a lock that is held).    *)
(* The variable cur names the coroutine that holds the event loop in the    *)
(* middle of such a synchronous run (0: the loop is free).                  *)
(***************************************************************************)
EXTENDS Integers, Sequences, FiniteSets, TLC

\* ------------------------------------------------------------------ bounds
MaxTasks == 1          \* submit calls in Spec
MaxOrderTasks == 2     \* submit calls in SpecOrder
MaxStarts == 2         \* start() calls that launch workers
MaxDelayTasks == 2     \* submit calls in SpecDelay
MaxBurstTasks == 3     \* submit calls in SpecBurst
MaxLoopTime == 6       \* milliseconds of loop time in SpecDelay
MaxDashCalls == 2      \* cached reads of the orchestrator in SpecPlatform
MaxPurchases == 2      \* queue_token_purchase_processing calls in SpecPurchase
MaxRepeats == 3        \* submit_payment calls in SpecRepeat
MaxReaders == 2        \* get_computer and get_computer_status calls in SpecOrgo
MaxOps == 1            \* stop, start and delete calls in SpecOrgo
RegistryCap == 2       \* stands for the 10000 keys the seen-id registry may hold
MaxSize == 1           \* largest max_size of a cache that overflows
DefaultTtl == 2        \* default_ttl of the cache, in clock ticks
MaxTime == 2           \* last tick of time.time()
MaxAccess == 1         \* hits counted on one entry
MaxCallers == 2        \* get_or_set calls
EvictMax == 21         \* largest store eviction is applied to in SpecEvict

\* ------------------------------------------------------- program constants
HIGH == 1
NORMAL == 2
LOW == 3
MaxRetries == 3
MaxWorkers == 2

Priorities == {HIGH, NORMAL, LOW}
Types == {"work"}
\* id(payload): the address of the payload object
PayloadIds == {1, 2}
DelaysMs == {0, 5}
\* instants of datetime.utcnow(), in microseconds
Times == {17100000, 17120000}
\* what the registry keeps on overflow: 5000 of 10000
RegistryKeep == RegistryCap \div 2
\* payment ids (0: the event carries neither id nor session_id)
PaymentIds == 1 .. (RegistryCap + 1)
CallIds == 1 .. (RegistryCap + 2)

NoItem == [prio |-> 0]
LoopIds == 1 .. (MaxWorkers * MaxStarts)

VARIABLES
  heap,        \* self.queue: the list asyncio.PriorityQueue keeps as a heapq heap
  running,     \* self.running
  workers,     \* self.workers: the worker loops start() created last
  loops,       \* every worker loop task ever created: its position and locals
  handlers,    \* self.task_handlers: the registered task types
  metrics,     \* self.metrics
  clock,       \* the wall clock read by datetime.utcnow()
  cur,         \* the coroutine that holds the event loop (0: none)
  stopper,     \* the stop() call in flight: the loops it waits for
  nsubmit,     \* history: number of submit calls so far
  nstart,      \* history: number of start() calls that launched workers
  dropped,     \* history: tasks given up after their last retry, with the
               \* number of handler invocations each had
  processed_ids,  \* PaymentQueue.processed_ids
  calls,       \* the submit_payment calls: position, event, result
  cache,       \* CacheManager._cache: the entries, in the dict's insertion order
  locks,       \* CacheManager._locks: the keys that have a lock
  max_size,    \* CacheManager.max_size
  default_ttl, \* CacheManager.default_ttl
  cleanup,     \* CacheManager._cleanup_task: "none", "sleeping", "cancelling"
  ctime,       \* the clock read by time.time(), in ticks
  gos,         \* the get_or_set calls: position, key, factory value, result
  ret,         \* history: the get, set, delete or clear call made in the last
               \* step and what it returned
  written,     \* history: per key, the last value set and not since removed
               \* by delete, eviction or clear
  evict,       \* history: the store _evict_lru ran on in the last step and the
               \* places of the entries it removed
  held,        \* the locks held by calls that are suspended: keys, and
               \* GlobalLock for CacheManager._global_lock
  touched,     \* history: the keys whose entry the last step wrote or removed,
               \* each with the lock that was held for it
  shot,        \* history: the last cache_screenshot call: its arguments and
               \* the string it returned
  ltime,       \* the event loop's clock, loop.time(), in milliseconds
  deq_at,      \* history: per worker loop, the loop time at which it last
               \* received a task from the queue
  orch,        \* the calls of the orchestrator's cached reads: position,
               \* arguments, and what each did and returned
  orgo,        \* the provider's VMs and the OrgoClient calls in flight
  purchases    \* history: the tasks (by submit number) whose purchase
               \* processing raised inside _handle_payment_async

qvars == <<heap, running, workers, loops, handlers, metrics, clock, cur,
           stopper, nsubmit, nstart, dropped>>
pvars == <<processed_ids, calls>>
cvars == <<cache, locks, max_size, default_ttl, cleanup, ctime, gos, ret,
           written, evict, held, touched>>
svars == <<shot>>
dvars == <<ltime, deq_at>>
ovars == <<orch, orgo, purchases>>

\* ------------------------------------------------------------- strings
\* A Python str is a sequence of character codes ("0" is 48, "." is 46,
\* "_" is 95, "task_" is 116 97 115 107 95).
RECURSIVE Digits(_)
\* str(n) for an integer n >= 0
Digits(n) ==
  IF n < 10 THEN <<48 + n>> ELSE Append(Digits(n \div 10), 48 + (n % 10))

RECURSIVE PadDigits(_, _)
\* the last `width` decimal digits of n, zero-padded
PadDigits(n, width) ==
  IF width = 0 THEN <<>>
  ELSE Append(PadDigits(n \div 10, width - 1), 48 + (n % 10))

RECURSIVE FracDigits(_, _)
\* the digits after the point in the repr of a float that holds a whole
\* number of microseconds: trailing zeros dropped, one digit kept at least
FracDigits(r, width) ==
  IF width > 1 /\ r % 10 = 0 THEN FracDigits(r \div 10, width - 1)
  ELSE PadDigits(r, width)

\* f"{datetime.utcnow().timestamp()}" for the instant t (microseconds)
TimestampStr(t) ==
  Digits(t \div 1000000) \o <<46>> \o FracDigits(t % 1000000, 6)

\* f"task_{datetime.utcnow().timestamp()}_{id(payload)}"
TaskId(t, payload) ==
  <<116, 97, 115, 107, 95>> \o TimestampStr(t) \o <<95>> \o Digits(payload)

RECURSIVE StrLess(_, _)
\* a < b on Python strings: lexicographic on the character codes
StrLess(a, b) ==
  IF b = <<>> THEN FALSE
  ELSE IF a = <<>> THEN TRUE
  ELSE IF Head(a) # Head(b) THEN Head(a) < Head(b)
  ELSE StrLess(Tail(a), Tail(b))

\* ------------------------------------------------- the priority queue
\* A queue item is the tuple (priority, task_id, task); seq is history (the
\* number of the submit call that created the task) and takes no part in
\* any comparison.

\* the order of a tuple built as (task_id, priority, task)
ItemLTIdFirst(a, b) ==
  IF a.id # b.id THEN (IF StrLess(a.id, b.id) THEN "T" ELSE "F")
  ELSE IF a.prio # b.prio THEN (IF a.prio < b.prio THEN "T" ELSE "F")
  ELSE IF a.task = b.task THEN "F"
  ELSE "E"

\* a < b on two items, as Python compares tuples: the first position that
\* differs decides; two dicts that differ cannot be ordered (TypeError).
\* "T": a < b, "F": not a < b, "E": TypeError
ItemLT(a, b) ==
  IF a.prio # b.prio THEN (IF a.prio < b.prio THEN "T" ELSE "F")
  ELSE IF a.id # b.id THEN (IF StrLess(a.id, b.id) THEN "T" ELSE "F")
  ELSE IF a.task = b.task THEN "F"
  ELSE "E"

Swap(h, i, j) == [h EXCEPT ![i] = h[j], ![j] = h[i]]

RECURSIVE SiftDown(_, _, _)
\* heapq._siftdown (positions from 1): move h[pos] up while it is smaller
\* than its parent; a comparison that raises leaves the list as it is then
SiftDown(h, start, pos) ==
  IF pos <= start THEN [heap |-> h, err |-> FALSE]
  ELSE LET c == ItemLT(h[pos], h[pos \div 2])
       IN  IF c = "E" THEN [heap |-> h, err |-> TRUE]
           ELSE IF c = "F" THEN [heap |-> h, err |-> FALSE]
           ELSE SiftDown(Swap(h, pos, pos \div 2), start, pos \div 2)

RECURSIVE SiftUp(_, _, _)
\* heapq._siftup: bubble the smaller child up until a leaf is reached, then
\* sift the item that was at `start` down from there
SiftUp(h, start, pos) ==
  IF pos <= Len(h) \div 2 THEN
    LET c == IF 2 * pos + 1 <= Len(h) THEN ItemLT(h[2 * pos], h[2 * pos + 1])
             ELSE "T"
        child == IF c = "T" THEN 2 * pos ELSE 2 * pos + 1
    IN  IF c = "E" THEN [heap |-> h, err |-> TRUE]
        ELSE SiftUp(Swap(h, pos, child), start, child)
  ELSE SiftDown(h, start, pos)

\* heapq.heappush(heap, item), reached from PriorityQueue.put
HeapPush(h, item) == SiftDown(Append(h, item), 1, Len(h) + 1)

\* heapq.heappop(heap), reached from PriorityQueue.get; h is not empty.
\* When a comparison raises the popped item is lost with the exception.
HeapPop(h) ==
  LET last == h[Len(h)]
      rest == SubSeq(h, 1, Len(h) - 1)
  IN  IF rest = <<>> THEN [heap |-> rest, err |-> FALSE, item |-> last]
      ELSE LET r == SiftUp([rest EXCEPT ![1] = last], 1, 1)
           IN  [heap |-> r.heap, err |-> r.err, item |-> h[1]]

\* ------------------------------------------------------ AsyncTaskQueue
Loop(pc, item) == [pc |-> pc, item |-> item]

\* AsyncTaskQueue.__init__
QInit ==
  /\ heap = <<>>
  /\ running = FALSE
  /\ workers = {}
  /\ loops = [w \in LoopIds |-> Loop("none", NoItem)]
  /\ handlers = {}
  /\ metrics = [tasks_submitted |-> 0, tasks_completed |-> 0, tasks_failed |-> 0]
  /\ clock \in Times
  /\ cur = 0
  /\ stopper = {}
  /\ nsubmit = 0
  /\ nstart = 0
  /\ dropped = {}

\* register_handler(task_type, handler)
RegisterHandler(ty) ==
  /\ cur = 0
  /\ ty \notin handlers
  /\ handlers' = handlers \cup {ty}
  /\ UNCHANGED <<heap, running, workers, loops, metrics, clock, cur, stopper,
                 nsubmit, nstart, dropped>>

\* The task dict submit builds. t1 and t2 are the two readings of utcnow();
\* isoformat() is one-to-one on instants, so submitted_at holds the instant.
\* A payload is [obj: the address id() returns, id: the payment id it carries].
NewTask(ty, payload, prio, delay, t1, t2) ==
  [id |-> TaskId(t1, payload.obj), type |-> ty, payload |-> payload,
   priority |-> prio, submitted_at |-> t2, delay_ms |-> delay,
   retries |-> 0, error |-> ""]

\* the tuple submit puts on the queue (seq and att are history: the number
\* of the submit call, and the handler invocations so far)
NewItem(task, seq) ==
  [prio |-> task.priority, id |-> task.id, task |-> task, seq |-> seq,
   att |-> 0]

\* submit(task_type, payload, priority, delay_ms): runs without suspending
\* (the queue is unbounded and self._lock is never held across an await).
\* A TypeError of the heap's comparison leaves submit before the metric.
Submit(ty, payload, prio, delay, t1, t2) ==
  /\ cur = 0
  /\ clock <= t1 /\ t1 <= t2
  /\ LET task == NewTask(ty, payload, prio, delay, t1, t2)
         r == HeapPush(heap, NewItem(task, nsubmit + 1))
     IN  /\ heap' = r.heap
         /\ metrics' = IF r.err THEN metrics
                       ELSE [metrics EXCEPT !.tasks_submitted = @ + 1]
  /\ clock' = t2
  /\ nsubmit' = nsubmit + 1
  /\ UNCHANGED <<running, workers, loops, handlers, cur, stopper, nstart,
                 dropped>>

\* start(): nothing when already running, else max_workers new loops
Start ==
  /\ cur = 0
  /\ ~running
  /\ nstart < MaxStarts
  /\ running' = TRUE
  /\ LET new == (nstart * MaxWorkers + 1) .. ((nstart + 1) * MaxWorkers)
     IN  /\ workers' = new
         /\ loops' = [w \in LoopIds |->
                        IF w \in new THEN Loop("new", NoItem) ELSE loops[w]]
  /\ nstart' = nstart + 1
  /\ UNCHANGED <<heap, handlers, metrics, clock, cur, stopper, nsubmit,
                 dropped>>

\* stop(), to its await: the flag is cleared and the loops of self.workers
\* are gathered
StopCall ==
  /\ cur = 0
  /\ stopper = {}
  /\ running
  /\ running' = FALSE
  /\ stopper' = workers
  /\ UNCHANGED <<heap, workers, loops, handlers, metrics, clock, cur,
                 nsubmit, nstart, dropped>>

\* stop(), after its await: every gathered loop has ended
StopReturn ==
  /\ cur = 0
  /\ stopper # {}
  /\ \A w \in stopper : loops[w].pc = "done"
  /\ workers' = {}
  /\ stopper' = {}
  /\ UNCHANGED <<heap, running, loops, handlers, metrics, clock, cur,
                 nsubmit, nstart, dropped>>

\* a _process_task that takes a missing handler for a failure
InvokeCountingFailure(w, item) ==
  IF item.task.type \in handlers
  THEN /\ loops' = [loops EXCEPT ![w] = Loop("run", [item EXCEPT !.att = @ + 1])]
       /\ metrics' = metrics
       /\ cur' = 0
  ELSE /\ loops' = [loops EXCEPT ![w] = Loop("top", NoItem)]
       /\ metrics' = [metrics EXCEPT !.tasks_failed = @ + 1]
       /\ cur' = w

\* _process_task(task) up to the handler's first await: the handler starts,
\* or there is none and the task counts as completed
Invoke(w, item) ==
  IF item.task.type \in handlers
  THEN /\ loops' = [loops EXCEPT ![w] = Loop("run", [item EXCEPT !.att = @ + 1])]
       /\ metrics' = metrics
       /\ cur' = 0
  ELSE /\ loops' = [loops EXCEPT ![w] = Loop("top", NoItem)]
       /\ metrics' = [metrics EXCEPT !.tasks_completed = @ + 1]
       /\ cur' = w

\* _worker_loop from the return of queue.get(): a TypeError of the heap is
\* caught by the loop's outer handler, a delayed task is slept on
TakeItem(w) ==
  LET r == HeapPop(heap)
  IN  /\ heap' = r.heap
      /\ IF r.err
         THEN /\ loops' = [loops EXCEPT ![w] = Loop("top", NoItem)]
              /\ cur' = w
              /\ metrics' = metrics
         ELSE IF r.item.task.delay_ms > 0
         THEN /\ loops' = [loops EXCEPT ![w] = Loop("delay", r.item)]
              /\ cur' = 0
              /\ metrics' = metrics
         ELSE Invoke(w, r.item)

\* a new loop task is scheduled for the first time
WorkerBegin(w) ==
  /\ cur = 0
  /\ loops[w].pc = "new"
  /\ loops' = [loops EXCEPT ![w] = Loop("top", NoItem)]
  /\ cur' = w
  /\ UNCHANGED <<heap, running, workers, handlers, metrics, clock, stopper,
                 nsubmit, nstart, dropped>>

\* a loop that does not read the flag
WorkerTopUnstoppable(w) ==
  /\ cur = w
  /\ loops[w].pc = "top"
  /\ IF heap = <<>>
     THEN /\ loops' = [loops EXCEPT ![w] = Loop("waiting", NoItem)]
          /\ cur' = 0
          /\ UNCHANGED <<heap, metrics>>
     ELSE TakeItem(w)
  /\ UNCHANGED <<running, workers, handlers, clock, stopper, nsubmit, nstart,
                 dropped>>

\* while self.running: ... await wait_for(self.queue.get(), 1.0)
WorkerTop(w) ==
  /\ cur = w
  /\ loops[w].pc = "top"
  /\ IF ~running
     THEN /\ loops' = [loops EXCEPT ![w] = Loop("done", NoItem)]
          /\ cur' = 0
          /\ UNCHANGED <<heap, metrics>>
     ELSE IF heap = <<>>
     THEN /\ loops' = [loops EXCEPT ![w] = Loop("waiting", NoItem)]
          /\ cur' = 0
          /\ UNCHANGED <<heap, metrics>>
     ELSE TakeItem(w)
  /\ UNCHANGED <<running, workers, handlers, clock, stopper, nsubmit, nstart,
                 dropped>>

\* a loop suspended in queue.get() is woken by an item
WorkerWake(w) ==
  /\ cur = 0
  /\ loops[w].pc = "waiting"
  /\ heap # <<>>
  /\ TakeItem(w)
  /\ UNCHANGED <<running, workers, handlers, clock, stopper, nsubmit, nstart,
                 dropped>>

\* the 1.0 s timeout of wait_for: TimeoutError, continue
WorkerTimeout(w) ==
  /\ cur = 0
  /\ loops[w].pc = "waiting"
  /\ loops' = [loops EXCEPT ![w] = Loop("top", NoItem)]
  /\ cur' = w
  /\ UNCHANGED <<heap, running, workers, handlers, metrics, clock, stopper,
                 nsubmit, nstart, dropped>>

\* asyncio.sleep(delay_ms / 1000) is over
WorkerDelayDone(w) ==
  /\ cur = 0
  /\ loops[w].pc = "delay"
  /\ Invoke(w, loops[w].item)
  /\ UNCHANGED <<heap, running, workers, handlers, clock, stopper, nsubmit,
                 nstart, dropped>>

\* the handler returns
HandlerSuccess(w) ==
  /\ cur = 0
  /\ loops[w].pc = "run"
  /\ metrics' = [metrics EXCEPT !.tasks_completed = @ + 1]
  /\ loops' = [loops EXCEPT ![w] = Loop("top", NoItem)]
  /\ cur' = w
  /\ UNCHANGED <<heap, running, workers, handlers, clock, stopper, nsubmit,
                 nstart, dropped>>

\* a demotion that stops at LOW
RetryPriorityCapped(priority) == IF priority < LOW THEN priority + 1 ELSE LOW

\* the priority a failed task is put back with
RetryPriority(priority) == priority + 1

\* the tuple the worker puts back after a failure
RetryItem(item) ==
  [prio |-> RetryPriority(item.prio), id |-> item.id,
   task |-> [item.task EXCEPT !.retries = @ + 1, !.error = "err"],
   seq |-> item.seq, att |-> item.att]

\* one retry too many
ShouldRetryOnceMore(task) == task.retries <= MaxRetries

\* whether a failed task is put back
ShouldRetry(task) == task.retries < MaxRetries

\* a failure of the handler that ends the worker loop
HandlerFailEnds(w) ==
  /\ cur = 0
  /\ loops[w].pc = "run"
  /\ metrics' = [metrics EXCEPT !.tasks_failed = @ + 1]
  /\ loops' = [loops EXCEPT ![w] = Loop("done", NoItem)]
  /\ UNCHANGED <<heap, running, workers, handlers, clock, cur, stopper,
                 nsubmit, nstart, dropped>>

\* the handler raises: the failure is counted and the task is put back
\* while retries < 3 (a TypeError of that put is caught by the outer handler,
\* the item stays where heappush left it)
HandlerFail(w) ==
  /\ cur = 0
  /\ loops[w].pc = "run"
  /\ metrics' = [metrics EXCEPT !.tasks_failed = @ + 1]
  /\ IF ShouldRetry(loops[w].item.task)
     THEN /\ heap' = HeapPush(heap, RetryItem(loops[w].item)).heap
          /\ dropped' = dropped
     ELSE /\ heap' = heap
          /\ dropped' = dropped \cup
               {[seq |-> loops[w].item.seq, att |-> loops[w].item.att]}
  /\ loops' = [loops EXCEPT ![w] = Loop("top", NoItem)]
  /\ cur' = w
  /\ UNCHANGED <<running, workers, handlers, clock, stopper, nsubmit, nstart>>

\* ------------------------------------------------- the queue in time
DInit ==
  /\ ltime = 0
  /\ deq_at = [w \in LoopIds |-> 0]

\* a sleep that returns as soon as the loop runs again
SleepOverAtOnce(w) == TRUE

\* asyncio.sleep(delay_ms / 1000), begun when loop w received its task,
\* has returned
SleepOver(w) == ltime >= deq_at[w] + loops[w].item.task.delay_ms

\* the loop time at which each loop last received a task, after this step
NoteDequeue(w) ==
  /\ deq_at' = [deq_at EXCEPT ![w] =
                  IF Len(heap') < Len(heap) THEN ltime ELSE @]
  /\ ltime' = ltime

\* the steps of a worker loop, with the loop's clock
TimedTop(w) == WorkerTop(w) /\ NoteDequeue(w)
TimedWake(w) == WorkerWake(w) /\ NoteDequeue(w)
TimedDelayDone(w) ==
  /\ loops[w].pc = "delay"
  /\ SleepOver(w)
  /\ WorkerDelayDone(w)
  /\ UNCHANGED dvars

\* a millisecond passes while no task is running
LoopTick ==
  /\ cur = 0
  /\ ltime < MaxLoopTime
  /\ ltime' = ltime + 1
  /\ UNCHANGED <<deq_at, qvars>>

\* a payload that carries no payment id
Plain(obj) == [obj |-> obj, id |-> 0]

\* ---------------------------------------------------------- PaymentQueue
\* PaymentQueue.__init__
PInit ==
  /\ processed_ids = {}
  /\ calls = [c \in CallIds |-> [pc |-> "none"]]

\* a lookup that finds no id
IsProcessedNever(registry, pid) == FALSE

\* is_processed(payment_id)
IsProcessed(registry, pid) == pid \in registry

\* a mark_processed that never trims
MarkProcessedUntrimmed(registry, pid) == {registry \cup {pid}}

\* mark_processed(payment_id): the registries it may leave. A set has no
\* order, so list(set)[-5000:] keeps whichever 5000 ids the hash table
\* lists last.
MarkProcessed(registry, pid) ==
  LET r == registry \cup {pid}
  IN  IF Cardinality(r) > RegistryCap
      THEN {s \in SUBSET r : Cardinality(s) = RegistryKeep}
      ELSE {r}

\* a submit_payment call is made: its coroutine waits to be run. The event
\* is a dict of its own; conc is history (the calls then waiting with it).
\* Payment ids are interchangeable: they are named in the order of their
\* first use.
PayCreate(c, pid) ==
  /\ cur = 0
  /\ calls[c].pc = "none"
  /\ \A d \in CallIds : d < c => calls[d].pc # "none"
  /\ \A q \in PaymentIds :
        q < pid => \E d \in CallIds : d < c /\ calls[d].event.id = q
  /\ calls' = [calls EXCEPT ![c] =
                 [pc |-> "pending", event |-> [obj |-> c, id |-> pid],
                  conc |-> {d \in CallIds : calls[d].pc = "pending"}]]
  /\ UNCHANGED <<processed_ids, qvars>>

\* submit_payment(payment_type, event_data, priority) runs: no await in it
\* suspends (self._id_lock is never held across an await), so the lookup,
\* the marking and the submit are one step; t1 and t2 are the two readings
\* of utcnow() in submit
PayRunAt(c, prio, t1, t2) ==
  /\ calls[c].pc = "pending"
  /\ LET ev == calls[c].event
     IN  IF ev.id # 0 /\ IsProcessed(processed_ids, ev.id)
         THEN /\ cur = 0
              /\ calls' = [calls EXCEPT ![c] =
                   [@ EXCEPT !.pc = "done"] @@ [result |-> "None"]]
              /\ UNCHANGED <<processed_ids, qvars>>
         ELSE /\ processed_ids' \in (IF ev.id # 0
                                     THEN MarkProcessed(processed_ids, ev.id)
                                     ELSE {processed_ids})
              /\ Submit("payment_checkout_completed", ev, prio, 0, t1, t2)
              /\ calls' = [calls EXCEPT ![c] =
                   [@ EXCEPT !.pc = "done"] @@
                   [result |-> IF Len(heap') > Len(heap) /\
                                  metrics' # metrics
                               THEN "id" ELSE "TypeError"]]

\* submit_payment within one reading of the clock
PayRun(c, prio) == PayRunAt(c, prio, clock, clock)

\* a submit_payment call is made with the event dict of the call before
PayRepeat(c) ==
  /\ cur = 0
  /\ c > 1
  /\ calls[c].pc = "none"
  /\ calls[c - 1].pc # "none"
  /\ calls' = [calls EXCEPT ![c] =
                 [pc |-> "pending", event |-> calls[c - 1].event,
                  conc |-> {d \in CallIds : calls[d].pc = "pending"}]]
  /\ UNCHANGED <<processed_ids, qvars>>

\* --------------------------------------------------------- CacheManager
Keys == 1 .. (MaxSize + 1)
Values == {"a", "b"}
\* the ttl argument of set and get_or_set (0: None or 0, both falsy)
TtlArgs == {0, 1}
GosIds == 1 .. MaxCallers
NoEntry == [key |-> 0]
NoWrite == [value |-> "None"]
NoEvict == [store |-> <<>>, removed |-> {}]

\* CacheEntry(value, created_at, ttl_seconds): last_accessed defaults to
\* created_at
CacheEntry(k, v, now, ttl) ==
  [key |-> k, value |-> v, created_at |-> now, ttl_seconds |-> ttl,
   access_count |-> 0, last_accessed |-> now]

\* an expiry that begins when the age reaches the ttl
IsExpiredAtTtl(e, now) == now - e.created_at >= e.ttl_seconds

\* an expiry measured against the cache's default ttl
IsExpiredByDefault(e, now) == now - e.created_at > default_ttl

\* CacheEntry.is_expired
IsExpired(e, now) == now - e.created_at > e.ttl_seconds

KeysOf(c) == {c[i].key : i \in 1 .. Len(c)}

\* self._cache.get(key)
Lookup(c, k) ==
  IF k \in KeysOf(c) THEN c[CHOOSE i \in 1 .. Len(c) : c[i].key = k]
  ELSE NoEntry

\* del self._cache[key], for every key in ks
Remove(c, ks) == SelectSeq(c, LAMBDA e : e.key \notin ks)

\* a store that keeps the entry a key already has
PutIfAbsent(c, e) == IF e.key \in KeysOf(c) THEN c ELSE Append(c, e)

\* self._cache[key] = entry: a key already present keeps its place
Put(c, e) ==
  IF e.key \in KeysOf(c)
  THEN [i \in 1 .. Len(c) |-> IF c[i].key = e.key THEN e ELSE c[i]]
  ELSE Append(c, e)

\* a sort by the number of hits
SortKeyAccessCount(e) == e.access_count

\* the key _evict_lru sorts by
SortKey(e) == e.last_accessed

\* the place of entry i in sorted(items, key): sorted() is stable
RankOf(c, i) ==
  1 + Cardinality({j \in 1 .. Len(c) :
                     \/ SortKey(c[j]) < SortKey(c[i])
                     \/ SortKey(c[j]) = SortKey(c[i]) /\ j < i})

\* a tenth, rounded down, with no minimum
ToRemoveFloor(n) == n \div 10

\* int(len(sorted_items) * 0.1) or 1
ToRemove(n) == IF n \div 10 # 0 THEN n \div 10 ELSE 1

\* sorted_items[:to_remove]: the places in the store of the entries that
\* come first in the sorted order
Victims(c) ==
  IF c = <<>> THEN {}
  ELSE {i \in 1 .. Len(c) : RankOf(c, i) <= ToRemove(Len(c))}

\* _evict_lru
EvictLru(c) == Remove(c, {c[i].key : i \in Victims(c)})

\* ttl = ttl or self.default_ttl
Ttl(ttlArg) == IF ttlArg # 0 THEN ttlArg ELSE default_ttl

\* get(key): the store it leaves and the value it returns
Get(c, k, now) ==
  LET e == Lookup(c, k) IN
  IF e = NoEntry THEN [cache |-> c, value |-> "None"]
  ELSE IF IsExpired(e, now) THEN [cache |-> Remove(c, {k}), value |-> "None"]
  ELSE [cache |-> Put(c, [e EXCEPT !.access_count = @ + 1,
                                   !.last_accessed = now]),
        value |-> e.value]

\* whether set() runs the eviction
AtCapacity(c) == Len(c) >= max_size

\* set(key, value, ttl): the store it leaves
Set(c, k, v, ttlArg, now) ==
  Put(IF AtCapacity(c) THEN EvictLru(c) ELSE c,
      CacheEntry(k, v, now, Ttl(ttlArg)))

\* self._global_lock, named as a key that no entry has
GlobalLock == 0

\* the entry of key k is written or removed under its own lock, or under
\* the global lock
UnderKeyLock(ks) == {[key |-> k, lock |-> k] : k \in ks}
UnderGlobalLock(ks) == {[key |-> k, lock |-> GlobalLock] : k \in ks}

NoCall == [op |-> "none", key |-> 0, value |-> "None"]
Return(op, k, v) == [op |-> op, key |-> k, value |-> v]

\* CacheManager.__init__
CInit(ms) ==
  /\ cache = <<>>
  /\ locks = {}
  /\ max_size = ms
  /\ default_ttl = DefaultTtl
  /\ cleanup = "none"
  /\ ctime = 0
  /\ gos = [c \in GosIds |-> [pc |-> "none"]]
  /\ ret = NoCall
  /\ written = <<>>
  /\ evict = NoEvict
  /\ held = {}
  /\ touched = {}

\* time passes
CTick ==
  /\ ctime < MaxTime
  /\ ctime' = ctime + 1
  /\ ret' = NoCall /\ evict' = NoEvict /\ touched' = {}
  /\ UNCHANGED <<cache, locks, max_size, default_ttl, cleanup, gos, written,
                 held>>

\* start()
CacheStart ==
  /\ cleanup = "none"
  /\ cleanup' = "sleeping"
  /\ ret' = NoCall /\ evict' = NoEvict /\ touched' = {}
  /\ UNCHANGED <<cache, locks, max_size, default_ttl, ctime, gos, written,
                 held>>

\* stop(), up to its await of the cancelled task
CacheStopCall ==
  /\ cleanup = "sleeping"
  /\ cleanup' = "cancelling"
  /\ ret' = NoCall /\ evict' = NoEvict /\ touched' = {}
  /\ UNCHANGED <<cache, locks, max_size, default_ttl, ctime, gos, written,
                 held>>

\* the sweeper leaves its loop on CancelledError and stop() returns
CacheStopReturn ==
  /\ cleanup = "cancelling"
  /\ cleanup' = "none"
  /\ ret' = NoCall /\ evict' = NoEvict /\ touched' = {}
  /\ UNCHANGED <<cache, locks, max_size, default_ttl, ctime, gos, written,
                 held>>

\* one round of _cleanup_loop after its sleep: no lock is held by anyone
\* else, so the scan and the deletions run without suspending
Sweep ==
  /\ cleanup = "sleeping"
  /\ LET expired == {k \in KeysOf(cache) : IsExpired(Lookup(cache, k), ctime)}
     IN  /\ expired \cap held = {}
         /\ cache' = Remove(cache, expired)
         /\ locks' = locks \cup expired
         /\ touched' = UnderKeyLock(expired)
  /\ ret' = NoCall /\ evict' = NoEvict
  /\ UNCHANGED <<max_size, default_ttl, cleanup, ctime, gos, written, held>>

\* the expired keys of store c in the order the scan lists them
ExpiredPlaces(c, now) == {i \in 1 .. Len(c) : IsExpired(c[i], now)}

\* a round of _cleanup_loop in which an error is raised after the first n
\* expired keys were deleted: the error is printed at line 163 and the loop
\* goes on to its next sleep
SweepFail(n) ==
  /\ cleanup = "sleeping"
  /\ n <= Cardinality(ExpiredPlaces(cache, ctime))
  /\ LET first == {i \in ExpiredPlaces(cache, ctime) :
                     Cardinality({j \in ExpiredPlaces(cache, ctime) : j <= i}) <= n}
         gone == {cache[i].key : i \in first}
     IN  /\ gone \cap held = {}
         /\ cache' = Remove(cache, gone)
         /\ locks' = locks \cup gone
         /\ touched' = UnderKeyLock(gone)
  /\ ret' = Return("cleanup", 0, "error")
  /\ evict' = NoEvict
  /\ UNCHANGED <<max_size, default_ttl, cleanup, ctime, gos, written, held>>

\* entry.access_count += 1 stays within the counter's bound
CanCount(k) ==
  Lookup(cache, k) # NoEntry => Lookup(cache, k).access_count < MaxAccess
                                \/ IsExpired(Lookup(cache, k), ctime)

\* the part of get(key) on the store and the lock map
GetEffect(k) ==
  /\ CanCount(k)
  /\ k \notin held
  /\ cache' = Get(cache, k, ctime).cache
  /\ locks' = locks \cup {k}
  /\ touched' = UnderKeyLock({k} \cap KeysOf(cache))
  /\ ret' = Return("get", k, Get(cache, k, ctime).value)
  /\ evict' = NoEvict
  /\ UNCHANGED <<max_size, default_ttl, cleanup, ctime, written>>

\* the part of set(key, value, ttl) on the store and the lock map
SetEffect(k, v, ttlArg) ==
  LET ran == AtCapacity(cache) /\ cache # <<>>
      places == IF AtCapacity(cache) THEN Victims(cache) ELSE {}
      gone == {cache[i].key : i \in places}
  IN  /\ GlobalLock \notin held
      /\ k \notin held
      /\ cache' = Set(cache, k, v, ttlArg, ctime)
      /\ locks' = locks \cup {k}
      /\ touched' = UnderGlobalLock(gone) \cup UnderKeyLock({k})
      /\ ret' = Return("set", k, "None")
      /\ written' =
           [q \in (DOMAIN written) \cup {k} |->
              IF q = k
              THEN [value |-> v, at |-> ctime, ttl |-> Ttl(ttlArg)]
              ELSE IF q \in gone THEN NoWrite ELSE written[q]]
      /\ evict' = IF ran
                  THEN [store |-> cache, removed |-> places]
                  ELSE NoEvict
      /\ UNCHANGED <<max_size, default_ttl, cleanup, ctime>>

\* get(key)
CGet(k) == GetEffect(k) /\ UNCHANGED <<gos, held>>

\* set(key, value, ttl)
CSet(k, v, ttlArg) == SetEffect(k, v, ttlArg) /\ UNCHANGED <<gos, held>>

\* a delete(key) that would drop the key's lock with its entry
CDeleteDroppingLock(k) ==
  /\ k \notin held
  /\ cache' = Remove(cache, {k})
  /\ locks' = locks \ {k}
  /\ touched' = UnderKeyLock({k} \cap KeysOf(cache))
  /\ ret' = Return("delete", k, IF k \in KeysOf(cache) THEN "True" ELSE "False")
  /\ written' = [q \in DOMAIN written |-> IF q = k THEN NoWrite ELSE written[q]]
  /\ evict' = NoEvict
  /\ UNCHANGED <<max_size, default_ttl, cleanup, ctime, gos, held>>

\* delete(key)
CDelete(k) ==
  /\ k \notin held
  /\ cache' = Remove(cache, {k})
  /\ locks' = locks \cup {k}
  /\ touched' = UnderKeyLock({k} \cap KeysOf(cache))
  /\ ret' = Return("delete", k, IF k \in KeysOf(cache) THEN "True" ELSE "False")
  /\ written' = [q \in DOMAIN written |-> IF q = k THEN NoWrite ELSE written[q]]
  /\ evict' = NoEvict
  /\ UNCHANGED <<max_size, default_ttl, cleanup, ctime, gos, held>>

\* clear()
CClear ==
  /\ GlobalLock \notin held
  /\ cache' = <<>>
  /\ touched' = UnderGlobalLock(KeysOf(cache))
  /\ ret' = Return("clear", 0, "None")
  /\ written' = [q \in DOMAIN written |-> NoWrite]
  /\ evict' = NoEvict
  /\ UNCHANGED <<locks, max_size, default_ttl, cleanup, ctime, gos, held>>

\* a get_or_set that keeps the key's lock while its factory runs
GosCallHoldingLock(c, k, fv) ==
  /\ gos[c].pc = "none"
  /\ \A d \in GosIds : d < c => gos[d].pc # "none"
  /\ GetEffect(k)
  /\ LET v == Get(cache, k, ctime).value
         others == {d \in GosIds : gos[d].pc = "factory" /\ gos[d].key = k}
     IN  /\ gos' = [gos EXCEPT ![c] =
                      IF v # "None"
                      THEN [pc |-> "done", key |-> k, fval |-> "None",
                            conc |-> {}, result |-> v]
                      ELSE [pc |-> "factory", key |-> k, fval |-> fv,
                            conc |-> others, result |-> "None"]]
         /\ held' = IF v # "None" THEN held ELSE held \cup {k}

\* get_or_set(key, factory) up to its first suspension: the get and, on a
\* miss, the call of the factory, whose value will be fv
GosCall(c, k, fv) ==
  /\ gos[c].pc = "none"
  /\ \A d \in GosIds : d < c => gos[d].pc # "none"
  /\ GetEffect(k)
  /\ LET v == Get(cache, k, ctime).value
         others == {d \in GosIds : gos[d].pc = "factory" /\ gos[d].key = k}
     IN  gos' = [gos EXCEPT ![c] =
                   IF v # "None"
                   THEN [pc |-> "done", key |-> k, fval |-> "None",
                         conc |-> {}, result |-> v]
                   ELSE [pc |-> "factory", key |-> k, fval |-> fv,
                         conc |-> others, result |-> "None"]]
  /\ held' = held

\* the factory returns: get_or_set stores its value and returns it
GosFactoryReturn(c) ==
  /\ gos[c].pc = "factory"
  /\ SetEffect(gos[c].key, gos[c].fval, 0)
  /\ gos' = [gos EXCEPT ![c].pc = "done", ![c].result = gos[c].fval]
  /\ held' = held

\* a factory that stores its value before it fails
GosFactoryRaiseStored(c) ==
  /\ gos[c].pc = "factory"
  /\ SetEffect(gos[c].key, gos[c].fval, 0)
  /\ gos' = [gos EXCEPT ![c].pc = "raised", ![c].result = "error"]
  /\ held' = held

\* the factory raises: the exception leaves get_or_set at line 124, before
\* the set
GosFactoryRaise(c) ==
  /\ gos[c].pc = "factory"
  /\ gos' = [gos EXCEPT ![c].pc = "raised", ![c].result = "error"]
  /\ ret' = NoCall
  /\ evict' = NoEvict
  /\ touched' = {}
  /\ UNCHANGED <<cache, locks, max_size, default_ttl, cleanup, ctime, written,
                 held>>

\* ------------------------------------------------------ ScreenshotCache
\* ScreenshotCache.__init__
ScreenshotTtl == 3
ScreenshotMaxSize == 200
CompressionThreshold == 100 * 1024

VmIds == {1}
Qualities == {"low", "medium", "high", "ultra"}

\* len(base64.b64encode(data)) for data of n bytes
B64Len(n) == 4 * ((n + 2) \div 3)

\* A base64 string that decodes to raw bytes, which are an image or not
Encoded(raw, image) ==
  [kind |-> "input", len |-> B64Len(raw), valid |-> TRUE, raw |-> raw,
   image |-> image]

\* a string of that length that base64 cannot decode
Undecodable(n) ==
  [kind |-> "input", len |-> n, valid |-> FALSE, raw |-> 0, image |-> FALSE]

\* decoded sizes on both sides of the threshold
RawSizes ==
  {3, CompressionThreshold - 1, CompressionThreshold, 2 * CompressionThreshold}

Shots ==
  {Encoded(n, i) : n \in RawSizes, i \in BOOLEAN} \cup {Undecodable(7)}

\* the sizes of the JPEG the image library may write: they depend on the
\* picture, not on the size of the file it came from
JpegSizes == {CompressionThreshold \div 2, 3 * CompressionThreshold}

\* what the transform meets: whether PIL can be imported, the step of the
\* library that raises, the size of the JPEG written
Envs ==
  [pil : BOOLEAN, fails : {"none", "thumbnail", "save"}, out : JpegSizes]

\* quality_settings.get(quality, (1024, 768, 75))
QualitySettings(q) ==
  IF q = "low" THEN <<640, 480, 60>>
  ELSE IF q = "high" THEN <<1920, 1080, 85>>
  ELSE <<1024, 768, 75>>

\* base64.b64encode(output.getvalue()).decode() of the JPEG written
Jpeg(settings, n) ==
  [kind |-> "jpeg", len |-> B64Len(n), valid |-> TRUE, raw |-> n,
   image |-> TRUE, settings |-> settings]

\* a transform that re-encodes pictures of any size
CompressAnySize(s, q, env) ==
  IF ~env.pil \/ ~s.valid \/ ~s.image \/ env.fails # "none" THEN s
  ELSE Jpeg(QualitySettings(q), env.out)

\* a transform that lets its errors out
CompressNoFallback(s, q, env) ==
  IF ~env.pil \/ ~s.valid THEN [kind |-> "error", len |-> 0]
  ELSE IF s.raw < CompressionThreshold THEN s
  ELSE IF ~s.image \/ env.fails # "none" THEN [kind |-> "error", len |-> 0]
  ELSE Jpeg(QualitySettings(q), env.out)

\* _compress_screenshot(base64_data, quality): every exception inside the
\* try returns the original
Compress(s, q, env) ==
  IF ~env.pil THEN s
  ELSE IF ~s.valid THEN s
  ELSE IF s.raw < CompressionThreshold THEN s
  ELSE IF ~s.image THEN s
  ELSE IF env.fails # "none" THEN s
  ELSE Jpeg(QualitySettings(q), env.out)

\* the key f"screenshot:{vm_id}": one key per vm id
ShotKey(vm) == vm

NoShot == [vm |-> 0]

SInit == shot = NoShot

\* cache_screenshot(vm_id, screenshot_base64, quality)
CacheScreenshot(vm, s, q, env) ==
  LET compressed == Compress(s, q, env)
  IN  /\ SetEffect(ShotKey(vm),
                   [data |-> compressed, quality |-> q,
                    original_size |-> s.len,
                    compressed_size |-> compressed.len],
                   default_ttl)
      /\ shot' = [vm |-> vm, input |-> s, quality |-> q, env |-> env,
                  returned |-> compressed]
      /\ UNCHANGED <<gos, held, qvars, pvars, dvars, ovars>>

\* -------------------------------------------------------- VMStatusCache
\* VMStatusCache.__init__
VmStatusTtl == 10
VmStatusMaxSize == 500

\* self._status_ttl_map
StatusTtlMap ==
  [s \in {"running", "stopped", "creating", "starting", "stopping", "error",
          "unknown"} |->
     CASE s = "running" -> 15
       [] s = "stopped" -> 60
       [] s = "error" -> 30
       [] OTHER -> 5]

\* the status records: with a status of the table, with a status the table
\* does not have, and without a status field
StatusRecords ==
  {[fields |-> {"status"}, status |-> s] :
     s \in (DOMAIN StatusTtlMap) \cup {"paused"}}
  \cup {[fields |-> {}, status |-> ""]}
StatusVmIds == {1, 2}

\* status_data.get("status", "unknown")
StatusOf(rec) == IF "status" \in rec.fields THEN rec.status ELSE "unknown"

\* a cache with one ttl for every status
GetStatusTtlFixed(status) == default_ttl

\* get_status_ttl(status)
GetStatusTtl(status) ==
  IF status \in DOMAIN StatusTtlMap THEN StatusTtlMap[status] ELSE default_ttl

\* the key f"vm_status:{vm_id}": one key per vm id
VmStatusKey(vm) == vm

\* cache_vm_status(vm_id, status_data)
CacheVmStatus(vm, rec) ==
  /\ SetEffect(VmStatusKey(vm), rec, GetStatusTtl(StatusOf(rec)))
  /\ UNCHANGED <<gos, held, qvars, pvars, svars, dvars, ovars>>

\* ----------------------------------------------------------- OrgoClient
ReaderIds == 1 .. MaxReaders
OpIds == 1 .. MaxOps
ReaderKinds == {"computer", "status"}
OpKinds == {"stop", "start", "delete"}

\* the VM of the model and the key of its status in vm_status_cache
OrgoVm == 1

\* the state in which the provider leaves the VM after an operation
StatusAfter(kind) ==
  CASE kind = "stop" -> "stopped"
    [] kind = "start" -> "running"
    [] OTHER -> "deleted"

\* The provider holds one running VM. epoch counts the operations the
\* provider has applied to it, returned is the epoch of the last operation
\* whose call has returned (both are history).
OrgoInit ==
  orgo = [status |-> "running", epoch |-> 0, returned |-> 0,
          readers |-> [r \in ReaderIds |-> [pc |-> "none"]],
          ops |-> [o \in OpIds |-> [pc |-> "none"]]]

\* what the provider answers to GET /v1/computers/{id}: the VM's data, or
\* an error status once the VM is deleted
ProviderData ==
  IF orgo.status = "deleted" THEN [fields |-> {}, status |-> "", error |-> TRUE]
  ELSE [fields |-> {"status"}, status |-> orgo.status, epoch |-> orgo.epoch,
        error |-> FALSE]

\* what a status record of the cache says of the provider's epoch
CachedRecord(data) ==
  [fields |-> data.fields, status |-> data.status, epoch |-> data.epoch]

OrgoFrame == UNCHANGED <<orch, purchases, qvars, pvars, svars, dvars>>

\* get_computer(computer_id) or get_computer_status(computer_id), to the
\* return on a hit or to the await of the request
ReaderCall(r, kind) ==
  /\ orgo.readers[r].pc = "none"
  /\ \A q \in ReaderIds : q < r => orgo.readers[q].pc # "none"
  /\ GetEffect(VmStatusKey(OrgoVm))
  /\ LET entry == Lookup(cache, VmStatusKey(OrgoVm))
         cached == Get(cache, VmStatusKey(OrgoVm), ctime).value
     IN  orgo' = [orgo EXCEPT !.readers[r] =
                    IF entry # NoEntry /\ ~IsExpired(entry, ctime)
                    THEN [pc |-> "done", kind |-> kind, path |-> "hit",
                          result |-> cached, after |-> orgo.returned]
                    ELSE [pc |-> "request", kind |-> kind, path |-> "miss",
                          result |-> "None", after |-> orgo.returned]]
  /\ UNCHANGED <<gos, held>>
  /\ OrgoFrame

\* the provider answers the request of reader r with the VM's data as it
\* is then
ProviderServes(r) ==
  /\ orgo.readers[r].pc = "request"
  /\ orgo' = [orgo EXCEPT !.readers[r].pc = "response",
                          !.readers[r].result = ProviderData]
  /\ ret' = NoCall /\ evict' = NoEvict /\ touched' = {}
  /\ UNCHANGED <<cache, locks, max_size, default_ttl, cleanup, ctime, gos,
                 written, held>>
  /\ OrgoFrame

\* the reader resumes with the answer: it caches the data and returns it
ReaderStore(r) ==
  /\ orgo.readers[r].pc = "response"
  /\ ~orgo.readers[r].result.error
  /\ LET rec == CachedRecord(orgo.readers[r].result)
     IN  /\ SetEffect(VmStatusKey(OrgoVm), rec, GetStatusTtl(StatusOf(rec)))
         /\ orgo' = [orgo EXCEPT !.readers[r].pc = "done",
                                 !.readers[r].result = rec]
  /\ UNCHANGED <<gos, held>>
  /\ OrgoFrame

\* the reader resumes with an error status: raise_for_status() raises;
\* get_computer lets the error through, get_computer_status returns
\* {"status": "unknown"}; nothing is cached
ReaderFail(r) ==
  /\ orgo.readers[r].pc = "response"
  /\ orgo.readers[r].result.error
  /\ orgo' = [orgo EXCEPT
               !.readers[r].pc =
                  IF orgo.readers[r].kind = "status" THEN "done" ELSE "raised",
               !.readers[r].result =
                  IF orgo.readers[r].kind = "status"
                  THEN [fields |-> {"status"}, status |-> "unknown",
                        epoch |-> orgo.epoch]
                  ELSE "error"]
  /\ ret' = NoCall /\ evict' = NoEvict /\ touched' = {}
  /\ UNCHANGED <<cache, locks, max_size, default_ttl, cleanup, ctime, gos,
                 written, held>>
  /\ OrgoFrame

\* stop_computer, start_computer or delete_computer, to the await of its
\* request
OpCall(o, kind) ==
  /\ orgo.ops[o].pc = "none"
  /\ \A q \in OpIds : q < o => orgo.ops[q].pc # "none"
  /\ orgo.status # "deleted"
  /\ orgo' = [orgo EXCEPT !.ops[o] = [pc |-> "posting", kind |-> kind,
                                      epoch |-> 0]]
  /\ ret' = NoCall /\ evict' = NoEvict /\ touched' = {}
  /\ UNCHANGED <<cache, locks, max_size, default_ttl, cleanup, ctime, gos,
                 written, held>>
  /\ OrgoFrame

\* the provider applies the operation and answers
ProviderApplies(o) ==
  /\ orgo.ops[o].pc = "posting"
  /\ orgo' = [orgo EXCEPT !.status = StatusAfter(orgo.ops[o].kind),
                          !.epoch = orgo.epoch + 1,
                          !.ops[o].pc = "applied",
                          !.ops[o].epoch = orgo.epoch + 1]
  /\ ret' = NoCall /\ evict' = NoEvict /\ touched' = {}
  /\ UNCHANGED <<cache, locks, max_size, default_ttl, cleanup, ctime, gos,
                 written, held>>
  /\ OrgoFrame

\* the operation resumes with the answer: it invalidates the VM's status
\* in the cache and returns
OpReturn(o) ==
  /\ orgo.ops[o].pc = "applied"
  /\ CDelete(VmStatusKey(OrgoVm))
  /\ orgo' = [orgo EXCEPT !.ops[o].pc = "done",
                          !.returned = IF orgo.ops[o].epoch > @
                                       THEN orgo.ops[o].epoch ELSE @]
  /\ OrgoFrame

\* -------------------------------------------------------- MousePlatform
\* general_cache = CacheManager(default_ttl=300, max_size=1000)
GeneralTtl == 300
GeneralMaxSize == 1000

DashIds == 1 .. MaxDashCalls
\* list_customer_vms_fast and get_customer_dashboard
DashOps == {"vms", "dashboard"}

\* f"customer_vms:{customer_id}" and f"dashboard:{customer_id}", for the
\* one customer of the model
DashKey(op) == IF op = "vms" THEN 1 ELSE 2

\* the task type of the refresh each read submits
RefreshType(op) == IF op = "vms" THEN "cleanup" ELSE "analytics"

\* the ttl each read caches its data with
DashTtl(op) == IF op = "vms" THEN 10 ELSE 5

\* what the fetch may give: a list of VMs, which may be empty, or the
\* dashboard dict
FreshData(op) == IF op = "vms" THEN {"vms", "empty"} ELSE {"dash"}

\* the types _init_queues registers on background_queue
BackgroundTypes == {"analytics", "cleanup"}

\* 'if cached:' : None and the empty list are falsy
Truthy(v) == v \notin {"None", "empty"}

\* no orchestrator call has been made
DashInit == orch = [c \in DashIds |-> [pc |-> "none"]]

\* list_customer_vms_fast(customer_id) or get_customer_dashboard(
\* customer_id), to the return on a hit or to the first await of the fetch
DashCall(c, op) ==
  /\ cur = 0
  /\ orch[c].pc = "none"
  /\ \A d \in DashIds : d < c => orch[d].pc # "none"
  /\ GetEffect(DashKey(op))
  /\ LET cached == Get(cache, DashKey(op), ctime).value
     IN  IF Truthy(cached)
         THEN /\ Submit(RefreshType(op), Plain(nsubmit + 1), LOW, 0, clock,
                        clock)
              /\ orch' = [orch EXCEPT ![c] =
                            [pc |-> "done", op |-> op, path |-> "hit",
                             result |-> cached, enqueued |-> TRUE]]
         ELSE /\ orch' = [orch EXCEPT ![c] =
                            [pc |-> "fetch", op |-> op, path |-> "miss",
                             result |-> "None", enqueued |-> FALSE]]
              /\ UNCHANGED qvars
  /\ UNCHANGED <<gos, held, orgo, purchases, pvars, svars, dvars>>

\* the fetch returns: the data is cached and returned
DashFetchReturn(c, data) ==
  /\ cur = 0
  /\ orch[c].pc = "fetch"
  /\ data \in FreshData(orch[c].op)
  /\ SetEffect(DashKey(orch[c].op), data, DashTtl(orch[c].op))
  /\ orch' = [orch EXCEPT ![c].pc = "done", ![c].result = data]
  /\ UNCHANGED <<gos, held, orgo, purchases, qvars, pvars, svars, dvars>>

\* the fetch raises (get_customer_dashboard: "Customer not found", or an
\* error of the database or the provider): the error reaches the caller
DashFetchRaise(c) ==
  /\ cur = 0
  /\ orch[c].pc = "fetch"
  /\ orch' = [orch EXCEPT ![c].pc = "raised", ![c].result = "error"]
  /\ ret' = NoCall /\ evict' = NoEvict /\ touched' = {}
  /\ UNCHANGED <<cache, locks, max_size, default_ttl, cleanup, ctime, gos,
                 written, held, orgo, purchases, qvars, pvars, svars,
                 dvars>>

\* the types _init_queues registers on payment_queue
PaymentTypes == {"payment_checkout_completed", "payment_webhook"}

\* _handle_payment_async(payload) when handle_token_purchase_completed
\* raises: the except clause prints the error and the handler returns
PaymentHandlerCatch(w) ==
  /\ loops[w].pc = "run"
  /\ loops[w].item.task.payload.id # 0
  /\ HandlerSuccess(w)
  /\ purchases' = purchases \cup {loops[w].item.seq}
  /\ UNCHANGED <<orch, orgo, pvars, cvars, svars, dvars>>

\* _handle_payment_async(payload) returns: the purchase was processed, or
\* the payload has no session_id and nothing was done
PaymentHandlerReturn(w) ==
  /\ HandlerSuccess(w)
  /\ UNCHANGED <<ovars, pvars, cvars, svars, dvars>>

\* no call of the orchestrator or of the provider's client has been made
OInit == DashInit /\ OrgoInit /\ purchases = {}

\* ------------------------------------------------------- specifications
vars == <<qvars, pvars, cvars, svars, dvars, ovars>>

\* what the queue's steps, the payment calls and the cache's steps leave alone
QFrame == UNCHANGED <<pvars, cvars, svars, dvars, ovars>>
PFrame == UNCHANGED <<cvars, svars, dvars, ovars>>
CFrame == UNCHANGED <<qvars, pvars, svars, dvars, ovars>>

Init == QInit /\ PInit /\ SInit /\ DInit /\ OInit /\ CInit(MaxSize)

\* the queue with its whole life cycle; every task has a payload object of
\* its own
Next ==
  \/ \E ty \in Types : RegisterHandler(ty) /\ QFrame
  \/ \E ty \in Types, prio \in Priorities, delay \in DelaysMs :
        /\ nsubmit < MaxTasks
        /\ Submit(ty, Plain(nsubmit + 1), prio, delay, clock, clock)
        /\ QFrame
  \/ Start /\ QFrame
  \/ StopCall /\ QFrame
  \/ StopReturn /\ QFrame
  \/ \E w \in LoopIds : WorkerBegin(w) /\ QFrame
  \/ \E w \in LoopIds : WorkerTop(w) /\ QFrame
  \/ \E w \in LoopIds : WorkerWake(w) /\ QFrame
  \/ \E w \in LoopIds : WorkerTimeout(w) /\ QFrame
  \/ \E w \in LoopIds : WorkerDelayDone(w) /\ QFrame
  \/ \E w \in LoopIds : HandlerSuccess(w) /\ QFrame
  \/ \E w \in LoopIds : HandlerFail(w) /\ QFrame
Spec == Init /\ [][Next]_vars

\* the steps of worker loop w
WorkerStep(w) ==
  \/ WorkerBegin(w) /\ QFrame
  \/ WorkerTop(w) /\ QFrame
  \/ WorkerWake(w) /\ QFrame
  \/ WorkerTimeout(w) /\ QFrame
  \/ WorkerDelayDone(w) /\ QFrame
  \/ HandlerSuccess(w) /\ QFrame
  \/ HandlerFail(w) /\ QFrame

\* The event loop runs every task that is ready, in turn, and the timeouts
\* and sleeps run out; every handler returns or raises; the task of stop()
\* is resumed when its gather() is done.
Fairness ==
  /\ \A w \in LoopIds : SF_vars(WorkerStep(w))
  /\ WF_vars(StopReturn /\ QFrame)
SpecFair == Spec /\ Fairness

\* the queue fed with undelayed tasks and never stopped; payload objects
\* and instants may repeat, and the clock may move between the two times
\* submit reads it
OrderNext ==
  \/ \E ty \in Types : RegisterHandler(ty) /\ QFrame
  \/ \E ty \in Types, obj \in PayloadIds, prio \in Priorities,
        t1 \in Times, t2 \in Times :
        /\ nsubmit < MaxOrderTasks
        /\ Submit(ty, Plain(obj), prio, 0, t1, t2)
        /\ QFrame
  \/ Start /\ QFrame
  \/ \E w \in LoopIds : WorkerBegin(w) /\ QFrame
  \/ \E w \in LoopIds : WorkerTop(w) /\ QFrame
  \/ \E w \in LoopIds : WorkerWake(w) /\ QFrame
  \/ \E w \in LoopIds : WorkerTimeout(w) /\ QFrame
  \/ \E w \in LoopIds : HandlerSuccess(w) /\ QFrame
  \/ \E w \in LoopIds : HandlerFail(w) /\ QFrame
SpecOrder == Init /\ [][OrderNext]_vars

\* the queue fed with a burst of tasks in one instant, for payload objects
\* that may repeat, and never stopped
BurstNext ==
  \/ \E ty \in Types : RegisterHandler(ty) /\ QFrame
  \/ \E obj \in PayloadIds, prio \in {HIGH, NORMAL} :
        /\ nsubmit < MaxBurstTasks
        /\ Submit("work", Plain(obj), prio, 0, clock, clock)
        /\ QFrame
  \/ Start /\ QFrame
  \/ \E w \in LoopIds : WorkerBegin(w) /\ QFrame
  \/ \E w \in LoopIds : WorkerTop(w) /\ QFrame
  \/ \E w \in LoopIds : WorkerWake(w) /\ QFrame
  \/ \E w \in LoopIds : WorkerTimeout(w) /\ QFrame
  \/ \E w \in LoopIds : HandlerSuccess(w) /\ QFrame
  \/ \E w \in LoopIds : HandlerFail(w) /\ QFrame
SpecBurst == Init /\ [][BurstNext]_vars

\* submit_payment calls on a payment queue that is not started
PayNext ==
  \/ \E c \in CallIds, pid \in PaymentIds \cup {0} : PayCreate(c, pid) /\ PFrame
  \/ \E c \in CallIds : PayRun(c, HIGH) /\ PFrame
SpecPay == Init /\ [][PayNext]_vars

\* caches that overflow and a cache with room for every key
CacheInit ==
  /\ QInit /\ PInit /\ SInit /\ DInit /\ OInit
  /\ \A t \in Times : clock <= t
  /\ \E ms \in 1 .. (MaxSize + 1) : CInit(ms)

\* the calls and events of a cache with its sweeper
CacheNext ==
  \/ CTick /\ CFrame
  \/ CacheStart /\ CFrame
  \/ CacheStopCall /\ CFrame
  \/ CacheStopReturn /\ CFrame
  \/ Sweep /\ CFrame
  \/ \E k \in Keys : CGet(k) /\ CFrame
  \/ \E k \in Keys, v \in Values, t \in TtlArgs : CSet(k, v, t) /\ CFrame
  \/ \E k \in Keys : CDelete(k) /\ CFrame
  \/ CClear /\ CFrame
SpecCache == CacheInit /\ [][CacheNext]_vars

\* get_or_set calls running together with get, set and delete calls
GosNext ==
  \/ \E c \in GosIds, k \in Keys, fv \in Values : GosCall(c, k, fv) /\ CFrame
  \/ \E c \in GosIds : GosFactoryReturn(c) /\ CFrame
  \/ \E c \in GosIds : GosFactoryRaise(c) /\ CFrame
  \/ \E k \in Keys : CGet(k) /\ CFrame
  \/ \E k \in Keys, v \in Values : CSet(k, v, 0) /\ CFrame
  \/ \E k \in Keys : CDelete(k) /\ CFrame
SpecGos == CacheInit /\ [][GosNext]_vars

\* a started queue with delayed and undelayed tasks, and the loop's clock
DelayNext ==
  \/ \E ty \in Types : RegisterHandler(ty) /\ QFrame
  \/ \E delay \in DelaysMs :
        /\ nsubmit < MaxDelayTasks
        /\ Submit("work", Plain(nsubmit + 1), NORMAL, delay, clock, clock)
        /\ QFrame
  \/ Start /\ nstart = 0 /\ QFrame
  \/ \E w \in LoopIds : WorkerBegin(w) /\ QFrame
  \/ \E w \in LoopIds : TimedTop(w) /\ UNCHANGED <<pvars, cvars, svars, ovars>>
  \/ \E w \in LoopIds : TimedWake(w) /\ UNCHANGED <<pvars, cvars, svars, ovars>>
  \/ \E w \in LoopIds : WorkerTimeout(w) /\ QFrame
  \/ \E w \in LoopIds : TimedDelayDone(w) /\ UNCHANGED <<pvars, cvars, svars, ovars>>
  \/ \E w \in LoopIds : HandlerSuccess(w) /\ QFrame
  \/ \E w \in LoopIds : HandlerFail(w) /\ QFrame
  \/ LoopTick /\ UNCHANGED <<pvars, cvars, svars, ovars>>
SpecDelay == Init /\ [][DelayNext]_vars

\* a queue that is started and never stopped, whose handlers may fail, next
\* to a cache whose sweeps may fail
ErrNext ==
  \/ \E ty \in Types : RegisterHandler(ty) /\ QFrame
  \/ /\ nsubmit < MaxTasks
     /\ Submit("work", Plain(nsubmit + 1), NORMAL, 0, clock, clock)
     /\ QFrame
  \/ Start /\ QFrame
  \/ \E w \in LoopIds : WorkerBegin(w) /\ QFrame
  \/ \E w \in LoopIds : WorkerTop(w) /\ QFrame
  \/ \E w \in LoopIds : WorkerWake(w) /\ QFrame
  \/ \E w \in LoopIds : WorkerTimeout(w) /\ QFrame
  \/ \E w \in LoopIds : HandlerSuccess(w) /\ QFrame
  \/ \E w \in LoopIds : HandlerFail(w) /\ QFrame
  \/ CTick /\ CFrame
  \/ CacheStart /\ CFrame
  \/ CacheStopCall /\ CFrame
  \/ CacheStopReturn /\ CFrame
  \/ Sweep /\ CFrame
  \/ \E n \in 0 .. MaxSize : SweepFail(n) /\ CFrame
  \/ \E k \in Keys : CSet(k, "a", 1) /\ CFrame
SpecErr == Init /\ [][ErrNext]_vars

\* a screenshot cache and the cache_screenshot calls made on it
ShotInit ==
  /\ QInit /\ PInit /\ SInit /\ DInit /\ OInit
  /\ \A t \in Times : clock <= t
  /\ cache = <<>>
  /\ locks = {}
  /\ max_size = ScreenshotMaxSize
  /\ default_ttl = ScreenshotTtl
  /\ cleanup = "none"
  /\ ctime = 0
  /\ gos = [c \in GosIds |-> [pc |-> "none"]]
  /\ ret = NoCall
  /\ written = <<>>
  /\ evict = NoEvict
  /\ held = {}
  /\ touched = {}
ShotNext ==
  \E vm \in VmIds, s \in Shots, q \in Qualities, env \in Envs :
    CacheScreenshot(vm, s, q, env)
SpecShot == ShotInit /\ [][ShotNext]_vars

\* a vm status cache, the cache_vm_status calls made on it and the time
VmInit ==
  /\ QInit /\ PInit /\ SInit /\ DInit /\ OInit
  /\ \A t \in Times : clock <= t
  /\ cache = <<>>
  /\ locks = {}
  /\ max_size = VmStatusMaxSize
  /\ default_ttl = VmStatusTtl
  /\ cleanup = "none"
  /\ ctime = 0
  /\ gos = [c \in GosIds |-> [pc |-> "none"]]
  /\ ret = NoCall
  /\ written = <<>>
  /\ evict = NoEvict
  /\ held = {}
  /\ touched = {}
VmNext ==
  \/ \E vm \in StatusVmIds, rec \in StatusRecords :
       CacheVmStatus(vm, rec)
  \/ CTick /\ CFrame
SpecVm == VmInit /\ [][VmNext]_vars

\* a full store of n entries, hit and last read at various times
EvictEntry(i, a, m) ==
  [key |-> i, value |-> "a", created_at |-> 0, ttl_seconds |-> 1 + (i % m),
   access_count |-> (i + 1) % 2, last_accessed |-> (a * i) % m]

EvictInit ==
  /\ QInit /\ PInit /\ SInit /\ DInit /\ OInit
  /\ \A t \in Times : clock <= t
  /\ \E n \in 1 .. EvictMax, a \in 0 .. 3, m \in {2, 3, 5, 7} :
       /\ cache = [i \in 1 .. n |-> EvictEntry(i, a, m)]
       /\ locks = 1 .. n
       /\ max_size = n
       /\ ctime = m
       /\ written = [i \in 1 .. n |->
                      [value |-> "a", at |-> 0, ttl |-> 1 + (i % m)]]
  /\ default_ttl = DefaultTtl
  /\ cleanup = "none"
  /\ gos = [c \in GosIds |-> [pc |-> "none"]]
  /\ ret = NoCall
  /\ evict = NoEvict
  /\ held = {}
  /\ touched = {}

\* one set on the full store, of a key it holds or of a new key
EvictNext ==
  \E k \in {1, Len(cache) + 1}, v \in Values, t \in TtlArgs :
    /\ ret = NoCall
    /\ CSet(k, v, t)
    /\ CFrame
SpecEvict == EvictInit /\ [][EvictNext]_vars

\* the provider's client with vm_status_cache: reads and operations on one
\* VM
OrgoNext ==
  \/ \E r \in ReaderIds, kind \in ReaderKinds : ReaderCall(r, kind)
  \/ \E r \in ReaderIds : ProviderServes(r)
  \/ \E r \in ReaderIds : ReaderStore(r)
  \/ \E r \in ReaderIds : ReaderFail(r)
  \/ \E o \in OpIds, kind \in OpKinds : OpCall(o, kind)
  \/ \E o \in OpIds : ProviderApplies(o)
  \/ \E o \in OpIds : OpReturn(o)
  \/ CTick /\ CFrame
SpecOrgo == VmInit /\ [][OrgoNext]_vars

\* the orchestrator's cached reads over general_cache and the started
\* background_queue, whose handlers return
PlatformInit ==
  /\ PInit /\ SInit /\ DInit /\ OInit
  /\ heap = <<>>
  /\ running = FALSE
  /\ workers = {}
  /\ loops = [w \in LoopIds |-> Loop("none", NoItem)]
  /\ handlers = BackgroundTypes
  /\ metrics = [tasks_submitted |-> 0, tasks_completed |-> 0, tasks_failed |-> 0]
  /\ clock \in Times
  /\ \A t \in Times : clock <= t
  /\ cur = 0
  /\ stopper = {}
  /\ nsubmit = 0
  /\ nstart = 0
  /\ dropped = {}
  /\ cache = <<>>
  /\ locks = {}
  /\ max_size = GeneralMaxSize
  /\ default_ttl = GeneralTtl
  /\ cleanup = "none"
  /\ ctime = 0
  /\ gos = [c \in GosIds |-> [pc |-> "none"]]
  /\ ret = NoCall
  /\ written = <<>>
  /\ evict = NoEvict
  /\ held = {}
  /\ touched = {}
PlatformNext ==
  \/ \E c \in DashIds, op \in DashOps : DashCall(c, op)
  \/ \E c \in DashIds, data \in {"vms", "empty", "dash"} :
        DashFetchReturn(c, data)
  \/ \E c \in DashIds : DashFetchRaise(c)
  \/ CTick /\ CFrame
  \/ Start /\ nstart = 0 /\ QFrame
  \/ \E w \in LoopIds : WorkerBegin(w) /\ QFrame
  \/ \E w \in LoopIds : WorkerTop(w) /\ QFrame
  \/ \E w \in LoopIds : WorkerWake(w) /\ QFrame
  \/ \E w \in LoopIds : WorkerTimeout(w) /\ QFrame
  \/ \E w \in LoopIds : HandlerSuccess(w) /\ QFrame
SpecPlatform == PlatformInit /\ [][PlatformNext]_vars

\* a queue that is given its handler and filled, then started, stopped
\* and, when stop() has returned, started again; payload objects and
\* instants may repeat
RestartNext ==
  \/ RegisterHandler("work") /\ nsubmit = 0 /\ QFrame
  \/ \E obj \in PayloadIds, prio \in {HIGH, NORMAL} :
        /\ nsubmit < MaxBurstTasks
        /\ nstart = 0
        /\ "work" \in handlers
        /\ Submit("work", Plain(obj), prio, 0, clock, clock)
        /\ QFrame
  \/ Start /\ nsubmit = MaxBurstTasks /\ stopper = {} /\ QFrame
  \/ StopCall /\ QFrame
  \/ StopReturn /\ QFrame
  \/ \E w \in LoopIds : WorkerBegin(w) /\ QFrame
  \/ \E w \in LoopIds : WorkerTop(w) /\ QFrame
  \/ \E w \in LoopIds : WorkerWake(w) /\ QFrame
  \/ \E w \in LoopIds : WorkerTimeout(w) /\ QFrame
  \/ \E w \in LoopIds : HandlerSuccess(w) /\ QFrame
  \/ \E w \in LoopIds : HandlerFail(w) /\ QFrame
SpecRestart == Init /\ [][RestartNext]_vars

\* a started payment queue whose handler returns: an event, with or without
\* a payment id, is submitted again and again, at any readings of the clock
RepeatNext ==
  \/ RegisterHandler("payment_checkout_completed") /\ nsubmit = 0 /\ QFrame
  \/ \E pid \in {0, 1} : PayCreate(1, pid) /\ PFrame
  \/ \E c \in 2 .. MaxRepeats : PayRepeat(c) /\ PFrame
  \/ \E c \in 1 .. MaxRepeats, t1, t2 \in Times :
        PayRunAt(c, HIGH, t1, t2) /\ PFrame
  \/ Start /\ nstart = 0 /\ QFrame
  \/ \E w \in LoopIds : WorkerBegin(w) /\ QFrame
  \/ \E w \in LoopIds : WorkerTop(w) /\ QFrame
  \/ \E w \in LoopIds : WorkerWake(w) /\ QFrame
  \/ \E w \in LoopIds : WorkerTimeout(w) /\ QFrame
  \/ \E w \in LoopIds : HandlerSuccess(w) /\ QFrame
SpecRepeat == Init /\ [][RepeatNext]_vars

\* a payment queue with its workers: the handler of the payments may be
\* missing, and may fail
PayWorkNext ==
  \/ RegisterHandler("payment_checkout_completed") /\ QFrame
  \/ \E c \in 1 .. MaxPurchases, pid \in PaymentIds \cup {0} :
        PayCreate(c, pid) /\ PFrame
  \/ \E c \in 1 .. MaxPurchases : PayRun(c, HIGH) /\ PFrame
  \/ Start /\ nstart = 0 /\ QFrame
  \/ \E w \in LoopIds : WorkerBegin(w) /\ QFrame
  \/ \E w \in LoopIds : WorkerTop(w) /\ QFrame
  \/ \E w \in LoopIds : WorkerWake(w) /\ QFrame
  \/ \E w \in LoopIds : WorkerTimeout(w) /\ QFrame
  \/ \E w \in LoopIds : HandlerSuccess(w) /\ QFrame
  \/ \E w \in LoopIds : HandlerFail(w) /\ QFrame
SpecPayWork == Init /\ [][PayWorkNext]_vars

\* the orchestrator's payment handler on the started payment_queue, fed by
\* queue_token_purchase_processing
PurchaseInit ==
  /\ PInit /\ SInit /\ DInit /\ OInit /\ CInit(MaxSize)
  /\ heap = <<>>
  /\ running = FALSE
  /\ workers = {}
  /\ loops = [w \in LoopIds |-> Loop("none", NoItem)]
  /\ handlers = PaymentTypes
  /\ metrics = [tasks_submitted |-> 0, tasks_completed |-> 0, tasks_failed |-> 0]
  /\ clock \in Times
  /\ \A t \in Times : clock <= t
  /\ cur = 0
  /\ stopper = {}
  /\ nsubmit = 0
  /\ nstart = 0
  /\ dropped = {}
PurchaseNext ==
  \/ \E c \in 1 .. MaxPurchases, pid \in PaymentIds \cup {0} :
        PayCreate(c, pid) /\ PFrame
  \/ \E c \in 1 .. MaxPurchases : PayRun(c, HIGH) /\ PFrame
  \/ Start /\ nstart = 0 /\ QFrame
  \/ \E w \in LoopIds : WorkerBegin(w) /\ QFrame
  \/ \E w \in LoopIds : WorkerTop(w) /\ QFrame
  \/ \E w \in LoopIds : WorkerWake(w) /\ QFrame
  \/ \E w \in LoopIds : WorkerTimeout(w) /\ QFrame
  \/ \E w \in LoopIds : PaymentHandlerCatch(w)
  \/ \E w \in LoopIds : PaymentHandlerReturn(w)
SpecPurchase == PurchaseInit /\ [][PurchaseNext]_vars

\* ---------------------------------------------------- the queue's claims
\* the items in the queue and in the hands of the worker loops
LiveItems ==
  {heap[i] : i \in 1 .. Len(heap)} \cup
  {loops[w].item : w \in {v \in LoopIds : loops[v].item # NoItem}}

\* worker loop w receives an item from the queue in this step
Dequeues(w) == loops[w].item = NoItem /\ loops'[w].item # NoItem

\* the handler run by worker loop w fails in this step
Fails(w) ==
  /\ loops[w].pc = "run"
  /\ loops'[w].pc = "top"
  /\ metrics'.tasks_failed = metrics.tasks_failed + 1

Claim_C2 ==
  [][ \A w \in LoopIds :
        (Dequeues(w) /\ loops'[w].item.task.retries = 0) =>
          \A i \in 1 .. Len(heap) :
            (/\ heap[i].task.retries = 0
             /\ heap[i].task.priority = loops'[w].item.task.priority)
            => heap[i].seq >= loops'[w].item.seq
    ]_vars

\* C3: a task is given up only after exactly 4 handler invocations (the
\* first attempt and 3 retries); a failed task with fewer invocations is put
\* back on the queue; a task given up is neither queued nor run again, and no
\* task has more than 4 invocations.
InvC3 ==
  /\ \A d \in dropped : d.att = MaxRetries + 1
  /\ \A it \in LiveItems :
       /\ it.att <= MaxRetries + 1
       /\ \A d \in dropped : d.seq # it.seq

StepC3 ==
  \A w \in LoopIds :
    Fails(w) =>
      LET it == loops[w].item
          back == \E i \in 1 .. Len(heap') : heap'[i].seq = it.seq
      IN  /\ it.att < MaxRetries + 1 => back
          /\ it.att = MaxRetries + 1 =>
               ~back /\ [seq |-> it.seq, att |-> it.att] \in dropped'

Thm_C3 == []InvC3 /\ [][StepC3]_vars

\* C3's case: a task has been given up after its 4th failure
Witness_C3 == \E d \in dropped : d.att = 4

\* C4: a failed task that is put back on the queue is put back with the
\* priority value it was dequeued with plus one; no step lowers the priority
\* value of a task or changes its id.
Thm_C4 ==
  [][ /\ \A w \in LoopIds :
           Fails(w) =>
             \A i \in 1 .. Len(heap') :
               heap'[i].seq = loops[w].item.seq =>
                 heap'[i].prio = loops[w].item.prio + 1
      /\ \A a \in LiveItems : \A b \in LiveItems' :
           a.seq = b.seq =>
             /\ b.prio >= a.prio
             /\ b.id = a.id
             /\ b.task.id = a.task.id
             /\ b.task.priority >= a.task.priority
    ]_vars

\* C4's case: a task submitted LOW is back on the queue after a failure,
\* one step less urgent than LOW
Witness_C4 ==
  \E i \in 1 .. Len(heap) :
    /\ heap[i].task.priority = LOW
    /\ heap[i].task.retries = 1
    /\ heap[i].prio = LOW + 1

\* the worker loops that have been created and have not ended
LiveLoops == {w \in LoopIds : loops[w].pc \notin {"none", "done"}}

\* a stop() call returns in this step: from its await or, with no worker
\* to wait for, at once
StopReturns ==
  \/ stopper # {} /\ stopper' = {}
  \/ running /\ ~running' /\ stopper' = {}

\* worker loop w starts a handler in this step
Starts(w) == loops[w].pc # "run" /\ loops'[w].pc = "run"

\* C11: when stop() returns, no worker loop is executing a handler or
\* holding a task it has dequeued.
Claim_C11 ==
  [][ StopReturns => \A w \in LoopIds : loops'[w].pc \notin {"run", "delay"} ]_vars

\* C12: no handler starts while the running flag is false, that is after a
\* stop() call and before the next start().
Claim_C12 ==
  [][ \A w \in LoopIds : Starts(w) => running ]_vars

\* a submit call is made in this step
Submits == nsubmit' = nsubmit + 1

\* C13: every submit call adds exactly one item to the queue and raises
\* tasks_submitted by exactly 1, and putting a failed task back leaves
\* tasks_submitted as it is.
Claim_C13 ==
  [][ /\ Submits => /\ Len(heap') = Len(heap) + 1
                    /\ metrics'.tasks_submitted = metrics.tasks_submitted + 1
      /\ \A w \in LoopIds :
           Fails(w) => metrics'.tasks_submitted = metrics.tasks_submitted
    ]_vars

\* C19: at no time are there more live worker loops than max_workers,
\* whatever the interleaving of start() and stop() calls.
Claim_C19 == Cardinality(LiveLoops) <= MaxWorkers

\* C20: the tasks of two different submit calls have different task ids,
\* so no two items of different submissions are equal on priority and id.
Claim_C20 ==
  \A a \in LiveItems : \A b \in LiveItems :
    a.seq # b.seq => a.id # b.id

\* the task with sequence number n is in the queue or in a worker's hands
Live(n) == \E it \in LiveItems : it.seq = n

\* the handler of the task with sequence number n returns in this step
Succeeds(n) ==
  \E w \in LoopIds :
    /\ loops[w].pc = "run" /\ loops[w].item.seq = n
    /\ loops'[w].pc = "top"
    /\ metrics'.tasks_completed = metrics.tasks_completed + 1

\* the task with sequence number n is given up in this step, after the
\* last attempt it is entitled to
GivenUp(n) ==
  /\ \E d \in dropped' \ dropped : d.seq = n /\ d.att = MaxRetries + 1

\* C27: a task whose type has a handler leaves the queue and the workers'
\* hands only when its handler has succeeded or when it is dropped after
\* its fourth failed attempt.
Claim_C27 ==
  [][ \A it \in LiveItems :
        (it.task.type \in handlers /\ ~Live(it.seq)') =>
          Succeeds(it.seq) \/ GivenUp(it.seq)
    ]_vars

\* ------------------------------------------------- the payment claims
Done(c) == calls[c].pc = "done"

\* the tasks on the queue whose event carries payment id pid
TasksFor(pid) == {i \in 1 .. Len(heap) : heap[i].task.payload.id = pid}

\* C5: of two successive submit_payment calls with the same (new) payment
\* id, the first returns a task id and the second returns None, and one task
\* for that id is enqueued.
Claim_C5 ==
  \A c1 \in CallIds : \A c2 \in CallIds :
    (/\ c2 = c1 + 1
     /\ Done(c1) /\ Done(c2)
     /\ calls[c1].event.id # 0
     /\ calls[c1].event.id = calls[c2].event.id
     /\ calls[c1].conc = {} /\ calls[c2].conc = {}
     /\ \A d \in CallIds : d < c1 => calls[d].event.id # calls[c1].event.id
     /\ \A d \in CallIds : d > c2 => ~Done(d))
    => /\ calls[c1].result = "id"
       /\ calls[c2].result = "None"
       /\ Cardinality(TasksFor(calls[c1].event.id)) = 1

\* C6: of the concurrent submit_payment calls with the same payment id, at
\* most one enqueues a task.
Claim_C6 ==
  \A c1 \in CallIds : \A c2 \in CallIds :
    (/\ Done(c1) /\ Done(c2)
     /\ c1 \in calls[c2].conc
     /\ calls[c1].event.id # 0
     /\ calls[c1].event.id = calls[c2].event.id)
    => ~(calls[c1].result = "id" /\ calls[c2].result = "id")

\* --------------------------------------------------- the cache's claims
\* what was last set for key k and not removed since by delete, eviction or
\* clear
Written(k) == IF k \in DOMAIN written THEN written[k] ELSE NoWrite

Fresh(w) == w # NoWrite /\ ctime - w.at <= w.ttl

\* C7: a get that returns a value returns the value last set for the key,
\* and that value is no older than its ttl; a get on a key whose last set is
\* no older than its ttl, with no delete, eviction or clear since, returns
\* the value set.  It holds with the sweeper stopped, sleeping or cancelled.
Thm_C7 ==
  ret.op = "get" =>
    /\ ret.value # "None" =>
         /\ Fresh(Written(ret.key))
         /\ ret.value = Written(ret.key).value
    /\ Fresh(Written(ret.key)) => ret.value = Written(ret.key).value
    /\ Lookup(cache, ret.key) # NoEntry =>
         ~IsExpired(Lookup(cache, ret.key), ctime)

\* C7's case: a get reports as absent a value that was set and has outlived
\* its ttl, while no sweeper runs
Witness_C7 ==
  /\ ret.op = "get"
  /\ ret.value = "None"
  /\ cleanup = "none"
  /\ Written(ret.key) # NoWrite
  /\ ctime - Written(ret.key).at > Written(ret.key).ttl

\* C8: the store never holds more than max_size entries, under every
\* interleaving of get, set, delete and get_or_set calls.
Thm_C8 == Len(cache) <= max_size

\* C8's case: a get_or_set stored its value in a full store, which evicted
\* and is full again
Witness_C8 ==
  /\ ret.op = "set"
  /\ evict # NoEvict
  /\ Len(cache) = max_size
  /\ \E c \in GosIds : gos[c].pc = "done" /\ gos[c].key = ret.key

\* C9: an eviction on a store of n entries removes max(1, n div 10)
\* entries, and each removed entry comes before each kept entry in the order
\* of last_accessed, then of insertion: nothing else (ttl, expiry,
\* access_count) decides.
Thm_C9 ==
  evict # NoEvict =>
    LET st == evict.store
        n == Len(st)
    IN  /\ Cardinality(evict.removed) = (IF n \div 10 >= 1 THEN n \div 10 ELSE 1)
        /\ evict.removed \subseteq 1 .. n
        /\ \A i \in evict.removed : \A j \in (1 .. n) \ evict.removed :
             \/ st[i].last_accessed < st[j].last_accessed
             \/ st[i].last_accessed = st[j].last_accessed /\ i < j

\* C9's case: an eviction of two entries out of twenty or more, one of them
\* with more hits than an entry that is kept and, unlike it, not expired
Witness_C9 ==
  /\ Cardinality(evict.removed) = 2
  /\ \E i \in evict.removed : \E j \in (1 .. Len(evict.store)) \ evict.removed :
       /\ evict.store[i].access_count > evict.store[j].access_count
       /\ ~IsExpired(evict.store[i], ctime)
       /\ IsExpired(evict.store[j], ctime)

\* get_or_set call c returns in this step after its factory
Completes(c) == gos[c].pc = "factory" /\ gos'[c].pc = "done"

Concurrent(c1, c2) ==
  /\ c1 # c2
  /\ gos[c1].pc # "none" /\ gos[c2].pc # "none"
  /\ c1 \in gos[c2].conc \/ c2 \in gos[c1].conc

\* C10 as stated: when the second of two concurrent get_or_set calls that
\* missed the same key returns, it returns what the first returned, and
\* that value is the one in the cache.
Claim_C10 ==
  [][ \A c1 \in GosIds : \A c2 \in GosIds :
        (Concurrent(c1, c2) /\ gos[c1].pc = "done" /\ Completes(c2)) =>
          /\ gos'[c2].result = gos[c1].result
          /\ Lookup(cache', gos[c2].key).value = gos[c1].result
    ]_vars

\* C10: a get_or_set call that missed returns the value of its own factory
\* invocation and, when it returns, the cache holds that value for the key,
\* as an entry created at that moment; a call that hit returns the cached
\* value without calling the factory.
Thm_C10 ==
  [][ \A c \in GosIds :
        /\ Completes(c) =>
             /\ gos'[c].result = gos[c].fval
             /\ Lookup(cache', gos[c].key) # NoEntry
             /\ Lookup(cache', gos[c].key).value = gos'[c].result
             /\ Lookup(cache', gos[c].key).created_at = ctime
        /\ (gos[c].pc = "none" /\ gos'[c].pc = "done") =>
             /\ Lookup(cache, gos'[c].key) # NoEntry
             /\ gos'[c].result = Lookup(cache, gos'[c].key).value
    ]_vars

\* C10's case: two concurrent calls missed the same key and returned
\* different values, and the cache holds the value of one of them
Witness_C10 ==
  \E c1 \in GosIds : \E c2 \in GosIds :
    /\ Concurrent(c1, c2)
    /\ gos[c1].pc = "done" /\ gos[c2].pc = "done"
    /\ gos[c1].result # gos[c2].result
    /\ ret.op = "set" /\ ret.key = gos[c2].key
    /\ Lookup(cache, gos[c2].key).value = gos[c2].result


\* the factory of get_or_set call c raises in this step
Raises(c) == gos[c].pc = "factory" /\ gos'[c].pc = "raised"

\* get_or_set call c is made in this step
Calls(c) == gos[c].pc = "none" /\ gos'[c].pc # "none"

\* C14: when the factory of a get_or_set call raises, the call ends with
\* the error and the store is left as it was, so that a get of the key
\* that follows is a miss when the key had no entry; and a get_or_set call
\* made after a failed one, on a key without entry, calls its factory.
Thm_C14 ==
  [][ /\ \A c \in GosIds :
           Raises(c) =>
             /\ gos'[c].result = "error"
             /\ cache' = cache
             /\ Lookup(cache, gos[c].key) = NoEntry =>
                  Get(cache', gos[c].key, ctime').value = "None"
      /\ \A c1 \in GosIds : \A c2 \in GosIds :
           (gos[c1].pc = "raised" /\ Calls(c2) /\ gos'[c2].key = gos[c1].key
              /\ Lookup(cache, gos[c1].key) = NoEntry) =>
             gos'[c2].pc = "factory"
    ]_vars

\* C14's case: a call's factory has raised and a later call for the same
\* key is in its own factory
Witness_C14 ==
  \E c1 \in GosIds : \E c2 \in GosIds :
    /\ gos[c1].pc = "raised"
    /\ gos[c2].pc = "factory"
    /\ gos[c2].key = gos[c1].key
    /\ c1 \notin gos[c2].conc
    /\ Lookup(cache, gos[c1].key) = NoEntry


\* C15: while the queue is running there are exactly max_workers live
\* worker loops, whatever tasks have failed: no step ends a loop while the
\* flag is set, a failing handler in particular; and the sweeper, once
\* started, stays alive through failed sweeps until stop() cancels it.
Thm_C15 ==
  /\ [](running => Cardinality(LiveLoops) = MaxWorkers)
  /\ [][ /\ running' => LiveLoops \subseteq LiveLoops'
         /\ cleanup = "sleeping" => cleanup' \in {"sleeping", "cancelling"}
       ]_vars

\* C15's case: a task has failed for the last time, a sweep has just failed,
\* and the queue's loops and the sweeper are alive
Witness_C15 ==
  /\ running
  /\ metrics.tasks_failed = MaxRetries + 1
  /\ Cardinality(LiveLoops) = MaxWorkers
  /\ ret = Return("cleanup", 0, "error")
  /\ cleanup = "sleeping"


\* the item that worker loop w passes to _process_task in this step, if any
Processed(w) ==
  IF loops[w].pc = "delay" /\ loops'[w].pc # "delay" THEN loops[w].item
  ELSE IF /\ \/ loops[w].pc = "top" /\ cur = w
             \/ loops[w].pc = "waiting" /\ cur = 0
          /\ Len(heap') < Len(heap)
          /\ loops'[w].pc \notin {"waiting", "delay"}
       THEN heap[1]
       ELSE NoItem

\* C16: a dequeued task whose type has no handler is dropped: after the
\* step that processes it the task is in no queue and in no worker's hands,
\* tasks_failed is what it was, and the worker loop is at the head of its
\* loop with no task.
Thm_C16 ==
  [][ \A w \in LoopIds :
        (Processed(w) # NoItem /\ Processed(w).task.type \notin handlers) =>
          /\ \A it \in LiveItems' : it.seq # Processed(w).seq
          /\ metrics'.tasks_failed = metrics.tasks_failed
          /\ dropped' = dropped
          /\ loops'[w] = Loop("top", NoItem)
    ]_vars

\* C16's case: a task was processed with no handler for its type, and its
\* worker goes on
Witness_C16 ==
  /\ handlers = {}
  /\ metrics.tasks_completed = 1
  /\ metrics.tasks_failed = 0
  /\ LiveItems = {}
  /\ running
  /\ \E w \in LoopIds : loops[w].pc = "top" /\ cur = w


\* the payment ids that submit_payment calls have marked as processed
Marked ==
  {calls[c].event.id :
     c \in {d \in CallIds : Done(d) /\ calls[d].event.id # 0
                              /\ calls[d].result # "None"}}

\* C17: the registry of processed payment ids never holds more ids than its
\* cap, whatever distinct ids are marked.
Thm_C17 == Cardinality(processed_ids) <= RegistryCap

\* C17's case: more distinct ids than the cap have been marked, and the
\* registry was cut down
Witness_C17 ==
  /\ Cardinality(Marked) = RegistryCap + 1
  /\ Cardinality(processed_ids) = RegistryKeep


\* C18: when a submit_payment call has marked its payment id, the id is in
\* the registry, also when the marking overflowed the registry: the id
\* inserted last is among those kept.
Claim_C18 ==
  [][ \A c \in CallIds :
        (calls[c].pc = "pending" /\ calls'[c].pc = "done"
           /\ calls[c].event.id # 0) =>
          calls[c].event.id \in processed_ids'
    ]_vars


\* C21: every entry that a step writes or removes is written or removed
\* under the lock of its own key.
Claim_C21 == \A t \in touched : t.lock = t.key


\* ------------------------------------------------ the screenshot claims
\* what the cache holds for the vm of the last cache_screenshot call
Stored == Lookup(cache, ShotKey(shot.vm)).value

\* a step of the transform of the last call failed
TransformFailed ==
  \/ ~shot.env.pil
  \/ ~shot.input.valid
  \/ /\ shot.input.raw >= CompressionThreshold
     /\ ~shot.input.image \/ shot.env.fails # "none"

\* C22: a screenshot that decodes to fewer bytes than the threshold is
\* returned and stored as it was given, whatever the quality.
Thm_C22 ==
  (shot # NoShot /\ shot.input.valid
     /\ shot.input.raw < CompressionThreshold) =>
    /\ shot.returned = shot.input
    /\ Stored.data = shot.input
    /\ Stored.compressed_size = Stored.original_size

\* C22's case: a picture one byte under the threshold, an unknown quality,
\* a working image library
Witness_C22 ==
  /\ shot # NoShot
  /\ shot.input = Encoded(CompressionThreshold - 1, TRUE)
  /\ shot.quality = "ultra"
  /\ shot.env.pil /\ shot.env.fails = "none"
  /\ Stored.data = shot.input

\* C23: for a screenshot at or over the threshold the recorded
\* compressed_size is at most the recorded original_size.
Claim_C23 ==
  (shot # NoShot /\ shot.input.valid
     /\ shot.input.raw >= CompressionThreshold) =>
    /\ Stored.compressed_size <= Stored.original_size
    /\ shot.returned.len <= shot.input.len

\* C24: when a step of the transform fails, cache_screenshot returns the
\* string it was given and stores it.
Thm_C24 ==
  (shot # NoShot /\ TransformFailed) =>
    /\ shot.returned = shot.input
    /\ Stored.data = shot.input
    /\ ret = Return("set", ShotKey(shot.vm), "None")

\* C24's case: a picture over the threshold whose re-encoding failed
Witness_C24 ==
  /\ shot # NoShot
  /\ shot.input = Encoded(2 * CompressionThreshold, TRUE)
  /\ shot.env.pil /\ shot.env.fails = "save"
  /\ shot.returned = shot.input
  /\ Stored.data = shot.input


\* ------------------------------------------------- the vm status claims
Transitional == {"creating", "starting", "stopping"}
Settled == {"running", "stopped"}

\* C25: every status record in the cache has the ttl of its own status: the
\* table's ttl for a status of the table, that of "unknown" for a record
\* without status, the default ttl for any other status; and a record in
\* a transitional status has a shorter ttl than one in a settled status.
Thm_C25 ==
  /\ \A i \in 1 .. Len(cache) :
       LET rec == cache[i].value
       IN  cache[i].ttl_seconds =
             (IF rec.fields = {} THEN StatusTtlMap["unknown"]
              ELSE IF rec.status \in DOMAIN StatusTtlMap
                   THEN StatusTtlMap[rec.status]
                   ELSE default_ttl)
  /\ \A i \in 1 .. Len(cache) : \A j \in 1 .. Len(cache) :
       (/\ cache[i].value.fields # {} /\ cache[j].value.fields # {}
        /\ cache[i].value.status \in Transitional
        /\ cache[j].value.status \in Settled)
       => cache[i].ttl_seconds < cache[j].ttl_seconds

\* C25's case: the cache holds a record without status and a record whose
\* status the table does not have
Witness_C25 ==
  /\ Len(cache) = 2
  /\ cache[1].value.fields = {}
  /\ cache[1].ttl_seconds = 5
  /\ cache[2].value.status = "paused"
  /\ cache[2].ttl_seconds = VmStatusTtl
  /\ ctime = MaxTime


\* ---------------------------------------------------- the delay claims
\* worker loop v, idle, can take the task at the head of the queue
CanTake(v) ==
  \/ /\ loops[v].pc = "waiting" /\ cur = 0
     /\ ENABLED (TimedWake(v) /\ UNCHANGED <<pvars, cvars, svars, ovars>>)
  \/ /\ loops[v].pc = "top" /\ cur = v
     /\ ENABLED (TimedTop(v) /\ UNCHANGED <<pvars, cvars, svars, ovars>>)

\* C26: the handler of a delayed task starts from the delay, at a loop time
\* that is at least the delay after the time the task was dequeued; and a
\* loop in a delay does not hold the event loop, so that any idle loop whose
\* turn it is can take the next task of the queue.
Thm_C26 ==
  /\ [][ \A w \in LoopIds :
           (Starts(w) /\ loops'[w].item.task.delay_ms > 0) =>
             /\ loops[w].pc = "delay"
             /\ ltime >= deq_at[w] + loops'[w].item.task.delay_ms
       ]_vars
  /\ [](\A w \in LoopIds :
          loops[w].pc = "delay" =>
            /\ cur # w
            /\ \A v \in LoopIds \ {w} :
                 (/\ heap # <<>>
                  /\ running
                  /\ \/ loops[v].pc = "waiting" /\ cur = 0
                     \/ loops[v].pc = "top" /\ cur = v)
                 => CanTake(v))

\* C26's case: one loop is in the delay of its task, not yet over, and the
\* other loop runs the handler of a task it dequeued later
Witness_C26 ==
  \E w \in LoopIds : \E v \in LoopIds :
    /\ loops[w].pc = "delay"
    /\ ltime < deq_at[w] + loops[w].item.task.delay_ms
    /\ loops[v].pc = "run"
    /\ deq_at[v] > deq_at[w]


\* ------------------------------------------------- the metrics claims
\* C30: the completed and the failed tasks together are never more than
\* the submitted ones.
Claim_C30 ==
  metrics.tasks_completed + metrics.tasks_failed <= metrics.tasks_submitted

\* ------------------------------------------------- the shutdown claims
\* C28: a stop() that is waiting for the worker loops returns, unless a
\* start() sets the flag again.
Thm_C28 == (stopper # {}) ~> (stopper = {} \/ running)

\* C28's case: stop() has returned from its wait although a task was left
\* in the queue
Witness_C28 ==
  /\ nstart = 1
  /\ ~running
  /\ stopper = {}
  /\ workers = {}
  /\ heap # <<>>
  /\ \A w \in 1 .. MaxWorkers : loops[w].pc = "done"


\* ---------------------------------------------- the get_or_set claims
\* the get_or_set calls whose factory is running
InFactory == {c \in GosIds : gos[c].pc = "factory"}

\* the next get_or_set call, if one is left to make
NextCaller == {c \in GosIds : gos[c].pc = "none" /\
                              \A d \in GosIds : d < c => gos[d].pc # "none"}

\* C29: while a factory of get_or_set is running, no lock of the cache is
\* held: get, set, delete and a further get_or_set on every key, the
\* factory's own key included, can run to completion at once.
Thm_C29 ==
  InFactory # {} =>
    /\ held = {}
    /\ \A k \in Keys :
         /\ CanCount(k) => ENABLED (CGet(k) /\ CFrame)
         /\ ENABLED (\E v \in Values : CSet(k, v, 0) /\ CFrame)
         /\ ENABLED (CDelete(k) /\ CFrame)
         /\ \A c \in NextCaller :
              CanCount(k) =>
                ENABLED (\E fv \in Values : GosCall(c, k, fv) /\ CFrame)

\* C29's case: the factories of two misses on different keys run at the
\* same time
Witness_C29 ==
  \E c, d \in InFactory : gos[c].key # gos[d].key

\* ------------------------------------------------- the eviction claims
\* the keys other than k that lose their entry in this step
Evicted(k) == (KeysOf(cache) \ {k}) \ KeysOf(cache')

\* C31: a set removes the entry of another key only when the key it writes
\* is new and the store is full; a set that replaces an entry of a full
\* store leaves every other entry in place.
Claim_C31 ==
  [][ \A k \in KeysOf(cache') :
        (ret'.op = "set" /\ ret'.key = k /\ Evicted(k) # {}) =>
          (k \notin KeysOf(cache) /\ Len(cache) + 1 > max_size)
    ]_vars

\* ------------------------------------------------- the sweeper's claims
\* this step is none of the cache's calls: time passes, the sweeper is
\* started or stopped, or the sweeper runs a round
NoCallStep == ret'.op \in {"none", "cleanup"}

\* C32: a round of the sweeper removes no entry whose age is within its
\* ttl at that moment: every such entry is in the store after the round as
\* it was before.
Thm_C32 ==
  [][ NoCallStep =>
        \A i \in 1 .. Len(cache) :
          ctime - cache[i].created_at <= cache[i].ttl_seconds =>
            Lookup(cache', cache[i].key) = cache[i]
    ]_vars

\* C32's case: a round of the sweeper has removed an entry and has left
\* one behind whose ttl has not elapsed
Witness_C32 ==
  /\ ret = NoCall
  /\ touched # {}
  /\ \E i \in 1 .. Len(cache) :
       ctime - cache[i].created_at <= cache[i].ttl_seconds

\* -------------------------------------------- the orchestrator's claims
\* C33: a cached read that missed the cache returns the data it fetched,
\* has stored it in the cache, and has enqueued a refresh task.
Claim_C33 ==
  \A c \in DashIds :
    (orch[c].pc = "done" /\ orch[c].path = "miss") =>
      /\ orch[c].result \in FreshData(orch[c].op)
      /\ orch[c].enqueued

\* the purchase of the task worker loop w runs raises in this step
PurchaseRaises(w) ==
  /\ loops[w].pc = "run"
  /\ loops[w].item.seq \notin purchases
  /\ loops[w].item.seq \in purchases'

\* C34: when the processing of a queued purchase raises, the payment queue
\* counts the task as failed, not as completed, and puts it back while it
\* has retries left.
Claim_C34 ==
  [][ \A w \in LoopIds :
        PurchaseRaises(w) =>
          /\ metrics'.tasks_failed = metrics.tasks_failed + 1
          /\ metrics'.tasks_completed = metrics.tasks_completed
          /\ ShouldRetry(loops[w].item.task) => Live(loops[w].item.seq)'
    ]_vars

\* --------------------------------------------- the idempotency claims
\* the submit_payment call c runs in this step
Runs(c) == calls[c].pc = "pending" /\ calls'[c].pc = "done"

\* C35: only submit_payment changes the registry of seen ids, whatever
\* becomes of the tasks; and a submit_payment whose id is in the registry
\* returns None, enqueues nothing and leaves the registry as it is.
Thm_C35 ==
  [][ /\ (\A c \in CallIds : ~Runs(c)) => processed_ids' = processed_ids
      /\ \A c \in CallIds :
           (Runs(c) /\ calls[c].event.id \in processed_ids) =>
             /\ calls'[c].result = "None"
             /\ heap' = heap
             /\ processed_ids' = processed_ids
    ]_vars

\* C35's case: the task of an accepted payment was given up after its last
\* retry, its id is still in the registry, and the second submission of the
\* same id has returned None
Witness_C35 ==
  /\ \E d \in dropped : d.att = MaxRetries + 1
  /\ LiveItems = {}
  /\ metrics.tasks_submitted = 1
  /\ calls[1].pc = "done" /\ calls[1].result = "id"
  /\ calls[2].pc = "done" /\ calls[2].result = "None"
  /\ calls[2].event.id = calls[1].event.id
  /\ calls[1].event.id \in processed_ids

\* ---------------------------------------- the provider client's claims
\* C36: a read that is answered from the cache after stop_computer,
\* start_computer or delete_computer has returned does not return data the
\* provider gave before that operation.
Claim_C36 ==
  \A r \in ReaderIds :
    (orgo.readers[r].pc = "done" /\ orgo.readers[r].path = "hit") =>
      orgo.readers[r].result.epoch >= orgo.readers[r].after

\* ------------------------------------------------- the restart claims
\* stop() has been called: the queue is stopped, or was started again
StopWasCalled == nstart >= 2 \/ (nstart = 1 /\ ~running)

\* after this step the item is in the queue, or in the hands of a worker
\* loop, with the priority and the retries it has
Kept(item) ==
  \E it \in LiveItems' :
    /\ it.seq = item.seq
    /\ it.prio = item.prio
    /\ it.task.retries = item.task.retries

\* a worker loop receives the head of the queue in this step
Received(i) ==
  /\ i = 1
  /\ Len(heap') < Len(heap)
  /\ ~HeapPop(heap).err

\* C37: from the call of stop() on, a task that is in the queue stays in
\* it, with its priority and its retries, until a worker loop receives it:
\* neither the stop nor the later start() takes a task out of the queue.
Claim_C37 ==
  [][ StopWasCalled =>
        \A i \in 1 .. Len(heap) : Kept(heap[i]) \/ Received(i)
    ]_vars

\* C38: a submit_payment whose event carries no payment id leaves the
\* registry as it is, returns a task id and puts one new task on the queue;
\* and a task whose event carries no payment id leaves the queue and the
\* workers' hands only when its handler has run.
Claim_C38 ==
  [][ /\ \A c \in CallIds :
           (Runs(c) /\ calls[c].event.id = 0) =>
             /\ processed_ids' = processed_ids
             /\ calls'[c].result = "id"
             /\ Len(heap') = Len(heap) + 1
      /\ \A it \in LiveItems :
           (it.task.payload.id = 0 /\ it.task.type \in handlers /\
            ~Live(it.seq)') =>
             metrics'.tasks_completed = metrics.tasks_completed + 1
    ]_vars

\* the key a step's call passes to get, set or delete
KeyPassed == IF ret'.op \in {"get", "set", "delete"} THEN {ret'.key} ELSE {}

\* C39: every key with an entry in the store has a lock in the lock map; no
\* step removes a lock, whatever it removes from the store; and a step adds
\* a lock only for the key its get, set or delete was called with, so the
\* locks are as many as the distinct keys ever passed, whatever max_size is.
Thm_C39 ==
  /\ KeysOf(cache) \subseteq locks
  /\ [][ /\ KeysOf(cache') \subseteq locks'
         /\ locks \subseteq locks'
         /\ (locks' \ locks) \subseteq KeyPassed
       ]_vars

\* C39's case: a delete or a clear has just removed entries, a key without
\* an entry keeps its lock, and there are more locks than max_size
Witness_C39 ==
  /\ ret.op \in {"delete", "clear"}
  /\ touched # {}
  /\ \E k \in locks : k \notin KeysOf(cache)
  /\ Cardinality(locks) > max_size

====
